---- MODULE Spec2Model ----
(***************************************************************************)
(* GoMad: molecular-mechanics force field (bonded terms, Verlet neighbor   *)
(* list, non-bonded Lennard-Jones + Coulomb pass, steepest descent).       *)
(*                                                                         *)
(* float64 values are modelled as extended rationals <<n, d>>:             *)
(*   d > 0, gcd(n, d) = 1   the finite value n/d                           *)
(*   <<1, 0>>, <<-1, 0>>    +Inf, -Inf                                     *)
(*   <<0, 0>>               NaN                                            *)
(* so that +, -, *, / are exact on finite values and follow IEEE-754 on    *)
(* division by zero, Inf and NaN.  Signed zero and rounding of +,-,*,/ are *)
(* not modelled; math.Sqrt, math.Sin and math.Cos round to a binary        *)
(* fraction.                                                               *)
(***************************************************************************)
EXTENDS Integers, Sequences, FiniteSets, TLC

VARIABLES
    atoms,          \* the heap of Atom objects: pointer -> Atom
    proteins,       \* the Protein objects: pointer -> Protein
    v,              \* the VerletList object under construction/use
    lastBuilt,      \* the protein passed to the last BuildVerlet call on v (0: none)
    prevBuilt,      \* the protein passed to the BuildVerlet call on v before that (0: none)
    verletCutOff,   \* package-level cutoff distance NewVerletList reads
    verletBuffer,   \* package-level buffer distance NewVerletList reads
    fcall,          \* the function call being evaluated (name and arguments)
    fret            \* what that call returned

vars == <<atoms, proteins, v, lastBuilt, prevBuilt, verletCutOff, verletBuffer, fcall, fret>>

-----------------------------------------------------------------------------
(* float64 arithmetic *)

Abs(n) == IF n < 0 THEN -n ELSE n

Sgn(n) == IF n < 0 THEN -1 ELSE IF n > 0 THEN 1 ELSE 0

RECURSIVE GCD(_, _)
GCD(a, b) == IF b = 0 THEN a ELSE GCD(b, a % b)

\* the float64 with value n/d (d = 0: NaN or an infinity by the sign of n)
Norm(n, d) ==
    IF d = 0 THEN <<Sgn(n), 0>>
    ELSE LET g == GCD(Abs(n), Abs(d))
             s == IF d < 0 THEN -1 ELSE 1
         IN  <<(s * n) \div g, (s * d) \div g>>

R(n) == <<n, 1>>
Zero == <<0, 1>>
One == <<1, 1>>
NaN == <<0, 0>>
PosInf == <<1, 0>>
NegInf == <<-1, 0>>

IsNaN(a) == a = NaN
IsFinite(a) == a[2] # 0

Neg(a) == <<-a[1], a[2]>>

\* a + b
Add(a, b) ==
    IF a[2] = 0 /\ b[2] = 0 THEN (IF a = b THEN a ELSE NaN)
    ELSE IF a[2] = 0 THEN a
    ELSE IF b[2] = 0 THEN b
    ELSE LET g == GCD(a[2], b[2])
         IN  Norm(a[1] * (b[2] \div g) + b[1] * (a[2] \div g), (a[2] \div g) * b[2])

\* a - b
Sub(a, b) == Add(a, Neg(b))

\* a * b (0 * Inf = NaN)
Mul(a, b) ==
    IF a[2] = 0 \/ b[2] = 0 THEN Norm(a[1] * b[1], 0)
    ELSE LET g1 == GCD(Abs(a[1]), b[2])
             g2 == GCD(Abs(b[1]), a[2])
         IN  IF a[1] = 0 \/ b[1] = 0 THEN Zero
             ELSE <<(a[1] \div g1) * (b[1] \div g2), (a[2] \div g2) * (b[2] \div g1)>>

\* 1 / a (1/0 = +Inf, 1/Inf = 0)
Inv(a) == IF a[1] < 0 THEN <<-a[2], -a[1]>> ELSE <<a[2], a[1]>>

\* a / b (x/0 = +-Inf for x # 0, 0/0 = NaN, Inf/Inf = NaN)
Div(a, b) == Mul(a, Inv(b))

\* a < b, a <= b, a == b as float64 comparisons: false when either side is NaN
Lt(a, b) ==
    /\ ~IsNaN(a) /\ ~IsNaN(b)
    /\ IF a[2] = 0 \/ b[2] = 0
       THEN a # b /\ (a = NegInf \/ b = PosInf)
       ELSE a[1] * b[2] < b[1] * a[2]

Eq(a, b) == ~IsNaN(a) /\ ~IsNaN(b) /\ a = b

Le(a, b) == Lt(a, b) \/ Eq(a, b)

\* math.Sqrt, math.Sin, math.Cos and math.Pi are kept to multiples of 1/FracDen
FracDen == 16

RECURSIVE ISqrtFrom(_, _)
ISqrtFrom(m, k) == IF (k + 1) * (k + 1) > m THEN k ELSE ISqrtFrom(m, k + 1)

\* math.Sqrt: NaN for negative arguments, rounded down to a multiple of 1/FracDen
Sqrt(a) ==
    IF a[2] = 0 THEN (IF a = PosInf THEN PosInf ELSE NaN)
    ELSE IF a[1] < 0 THEN NaN
    ELSE LET num == ISqrtFrom(a[1], 0)
             den == ISqrtFrom(a[2], 0)
         IN  IF num * num = a[1] /\ den * den = a[2] THEN <<num, den>>
             ELSE Norm(ISqrtFrom((a[1] * FracDen * FracDen) \div a[2], 0), FracDen)

\* math.Pi
Pi == Norm(50, FracDen)

\* FracDen * sin(k/2) and FracDen * cos(k/2), k = 1..12, rounded to the nearest integer
SinTable == <<8, 13, 16, 15, 10, 2, -6, -12, -16, -15, -11, -4>>
CosTable == <<14, 9, 1, -7, -13, -16, -15, -10, -3, 5, 11, 15>>

\* the argument as a count of half radians (the table's grid)
HalfRadians(a) == a[1] * (2 \div a[2])

\* math.Sin on the grid of half radians in [-6, 6]; NaN for NaN and Inf
Sin(a) ==
    IF a[2] = 0 THEN NaN
    ELSE LET k == HalfRadians(a)
         IN  IF k = 0 THEN Zero
             ELSE IF k > 0 THEN Norm(SinTable[k], FracDen)
             ELSE Norm(-SinTable[-k], FracDen)

\* math.Cos on the same grid
Cos(a) ==
    IF a[2] = 0 THEN NaN
    ELSE LET k == HalfRadians(a)
         IN  IF k = 0 THEN One ELSE Norm(CosTable[Abs(k)], FracDen)

\* FracDen * cos(k/2) for k = 0..6
CosAt(k) == IF k = 0 THEN FracDen ELSE CosTable[k]

\* math.Acos on the same grid: NaN outside [-1, 1], else the first half
\* radian in 0 .. 3 whose cosine is not above the argument
Acos(a) ==
    IF IsNaN(a) \/ Lt(One, a) \/ Lt(a, R(-1)) THEN NaN
    ELSE LET k == CHOOSE k \in 0..6 :
                      /\ Le(Norm(CosAt(k), FracDen), a)
                      /\ \A j \in 0..(k - 1) : ~Le(Norm(CosAt(j), FracDen), a)
         IN  Norm(k, 2)

\* math.Atan2(y, x) for finite arguments, exact on the axes and the
\* diagonals and rounded to the nearer axis in between
Atan2(y, x) ==
    IF IsNaN(y) \/ IsNaN(x) THEN NaN
    ELSE LET ay == Abs(y[1]) * x[2]
             ax == Abs(x[1]) * y[2]
             q == IF ay = 0 THEN Zero
                  ELSE IF ay = ax THEN Div(Pi, R(4))
                  ELSE IF ay < ax THEN Zero
                  ELSE Div(Pi, R(2))
             a == IF x[1] >= 0 THEN q ELSE Sub(Pi, q)
         IN  IF y[1] < 0 THEN Neg(a) ELSE a

-----------------------------------------------------------------------------
(* TriTuple and the vector helpers *)

TriTuple(x, y, z) == [x |-> x, y |-> y, z |-> z]

Vec(x, y, z) == TriTuple(R(x), R(y), R(z))

ZeroVec == Vec(0, 0, 0)

VecAdd(a, b) == TriTuple(Add(a.x, b.x), Add(a.y, b.y), Add(a.z, b.z))

Distance(p1, p2) ==
    LET deltaX == Sub(p1.x, p2.x)
        deltaY == Sub(p1.y, p2.y)
        deltaZ == Sub(p1.z, p2.z)
    IN  Sqrt(Add(Add(Mul(deltaX, deltaX), Mul(deltaY, deltaY)), Mul(deltaZ, deltaZ)))

magnitude(vector) ==
    Sqrt(Add(Add(Mul(vector.x, vector.x), Mul(vector.y, vector.y)), Mul(vector.z, vector.z)))

\* vector from atom1 to atom2
CalculateVector(atom1, atom2) ==
    TriTuple(Sub(atom2.position.x, atom1.position.x),
             Sub(atom2.position.y, atom1.position.y),
             Sub(atom2.position.z, atom1.position.z))

\* BuildNormalVector whose z component adds the two products
BuildNormalVectorSum(vector1, vector2) ==
    TriTuple(Sub(Mul(vector1.y, vector2.z), Mul(vector1.z, vector2.y)),
             Sub(Mul(vector1.z, vector2.x), Mul(vector1.x, vector2.z)),
             Add(Mul(vector1.x, vector2.y), Mul(vector1.y, vector2.x)))

BuildNormalVector(vector1, vector2) ==
    TriTuple(Sub(Mul(vector1.y, vector2.z), Mul(vector1.z, vector2.y)),
             Sub(Mul(vector1.z, vector2.x), Mul(vector1.x, vector2.z)),
             Sub(Mul(vector1.x, vector2.y), Mul(vector1.y, vector2.x)))

dot(vector1, vector2) ==
    Add(Add(Mul(vector1.x, vector2.x), Mul(vector1.y, vector2.y)), Mul(vector1.z, vector2.z))

\* Cross that returns the normal vector v1 x v2
CrossAsNormalVector(v1, v2) ==
    TriTuple(Sub(Mul(v1.y, v2.z), Mul(v1.z, v2.y)),
             Sub(Mul(v1.z, v2.x), Mul(v1.x, v2.z)),
             Sub(Mul(v1.x, v2.y), Mul(v1.y, v2.x)))

\* the element-wise product the torsion force uses
Cross(v1, v2) == TriTuple(Mul(v1.x, v2.x), Mul(v1.y, v2.y), Mul(v1.z, v2.z))

\* the value CalculateAngle hands to math.Acos
AngleCosine(atom1, atom2, atom3) ==
    LET vector1 == CalculateVector(atom2, atom1)
        vector2 == CalculateVector(atom3, atom1)
        upperValue == dot(vector1, vector2)
        lowerValue == Mul(Distance(atom1.position, atom2.position),
                          Distance(atom2.position, atom3.position))
    IN  Div(upperValue, lowerValue)

CalculateAngle(atom1, atom2, atom3) == Acos(AngleCosine(atom1, atom2, atom3))

\* <<plane1, plane2, plane3>> of CalculateDihedralAngle
DihedralPlaneNormals(atom1, atom2, atom3, atom4) ==
    LET vector1 == CalculateVector(atom2, atom1)
        vector2 == CalculateVector(atom3, atom2)
        vector3 == CalculateVector(atom4, atom3)
        plane1 == BuildNormalVector(vector1, vector2)
        plane2 == BuildNormalVector(vector2, vector3)
        plane3 == BuildNormalVector(plane1, plane2)
    IN  <<plane1, plane2, plane3>>

\* the dihedral angle in degrees
CalculateDihedralAngle(atom1, atom2, atom3, atom4) ==
    LET vector2 == CalculateVector(atom3, atom2)
        plane == DihedralPlaneNormals(atom1, atom2, atom3, atom4)
        x == dot(plane[1], plane[2])
        y == Div(dot(plane[3], vector2), magnitude(vector2))
        angle == Atan2(y, x)
    IN  Mul(angle, Div(R(180), Pi))

-----------------------------------------------------------------------------
(* Structure model: Atom, Residue, Protein *)

Atom(index, position, element, charge) ==
    [index |-> index, position |-> position, velocity |-> ZeroVec, force |-> ZeroVec,
     accelerated |-> ZeroVec, mass |-> Zero, element |-> element, charge |-> charge]

Residue(name, id, atomPtrs) == [Name |-> name, ID |-> id, ChainID |-> "A", Atoms |-> atomPtrs]

Protein(name, residues) == [Name |-> name, Residue |-> residues]

RECURSIVE FlattenAtoms(_)
\* the atom pointers of a residue list in iteration order (residue by residue)
FlattenAtoms(residues) ==
    IF residues = <<>> THEN <<>>
    ELSE Head(residues).Atoms \o FlattenAtoms(Tail(residues))

AtomsOf(protein) == FlattenAtoms(protein.Residue)

Range(s) == {s[i] : i \in DOMAIN s}

-----------------------------------------------------------------------------
(* Bonded term engine: bond energy and force, angle and torsion forces *)

\* CalculateBondStretchEnergy without the factor 0.5
CalculateBondStretchEnergyNoHalf(k, r, r_0) == Mul(Mul(k, Sub(r, r_0)), Sub(r, r_0))

CalculateBondStretchEnergy(k, r, r_0) ==
    Mul(Mul(Mul(Norm(1, 2), k), Sub(r, r_0)), Sub(r, r_0))

\* CalculateBondForce with fScale = k * (r - r_0)
CalculateBondForceTowards(k, r, r_0, atom1, atom2) ==
    LET bondLen == Distance(atom1.position, atom2.position)
        unitVector == TriTuple(Div(Sub(atom2.position.x, atom1.position.x), bondLen),
                               Div(Sub(atom2.position.y, atom1.position.y), bondLen),
                               Div(Sub(atom2.position.z, atom1.position.z), bondLen))
        fScale == Mul(k, Sub(r, r_0))
    IN  TriTuple(Mul(fScale, unitVector.x), Mul(fScale, unitVector.y),
                 Mul(fScale, unitVector.z))

CalculateBondForce(k, r, r_0, atom1, atom2) ==
    LET bondLen == Distance(atom1.position, atom2.position)
        unitVector == TriTuple(Div(Sub(atom2.position.x, atom1.position.x), bondLen),
                               Div(Sub(atom2.position.y, atom1.position.y), bondLen),
                               Div(Sub(atom2.position.z, atom1.position.z), bondLen))
        fScale == Mul(Neg(k), Sub(r, r_0))
    IN  TriTuple(Mul(fScale, unitVector.x), Mul(fScale, unitVector.y),
                 Mul(fScale, unitVector.z))

DerivateAnglePositionX(atom1, atom2, atom3, theta) ==
    Mul(Div(One, Distance(atom1.position, atom2.position)),
        Sub(Div(Sub(atom3.position.x, atom2.position.x), Distance(atom3.position, atom2.position)),
            Mul(Div(Sub(atom1.position.x, atom2.position.x),
                    Distance(atom1.position, atom2.position)), Cos(theta))))

DerivateAnglePositionY(atom1, atom2, atom3, theta) ==
    Mul(Div(One, Distance(atom1.position, atom2.position)),
        Sub(Div(Sub(atom3.position.y, atom2.position.y), Distance(atom3.position, atom2.position)),
            Mul(Div(Sub(atom1.position.y, atom2.position.y),
                    Distance(atom1.position, atom2.position)), Cos(theta))))

DerivateAnglePositionZ(atom1, atom2, atom3, theta) ==
    Mul(Div(One, Distance(atom1.position, atom2.position)),
        Sub(Div(Sub(atom3.position.z, atom2.position.z), Distance(atom3.position, atom2.position)),
            Mul(Div(Sub(atom1.position.z, atom2.position.z),
                    Distance(atom1.position, atom2.position)), Cos(theta))))

\* returns <<force_i, force_j, force_k>>
CalculateAngleForce(k, theta, theta_0, atom1, atom2, atom3) ==
    LET der_U_thate == Mul(k, Sub(theta, theta_0))
        der_that_cos == Mul(R(-1), Div(One, Sin(theta)))
        der_theta_x_12 == DerivateAnglePositionX(atom1, atom2, atom3, theta)
        der_theta_x_32 == DerivateAnglePositionX(atom3, atom2, atom2, theta)
        der_theta_y_12 == DerivateAnglePositionY(atom1, atom2, atom3, theta)
        der_theta_y_32 == DerivateAnglePositionY(atom3, atom2, atom2, theta)
        der_theta_z_12 == DerivateAnglePositionZ(atom1, atom2, atom3, theta)
        der_theta_z_32 == DerivateAnglePositionZ(atom3, atom2, atom2, theta)
        force_i == TriTuple(Mul(Mul(der_U_thate, der_that_cos), der_theta_x_12),
                            Mul(Mul(der_U_thate, der_that_cos), der_theta_y_12),
                            Mul(Mul(der_U_thate, der_that_cos), der_theta_z_12))
        force_k == TriTuple(Mul(Mul(der_U_thate, der_that_cos), der_theta_x_32),
                            Mul(Mul(der_U_thate, der_that_cos), der_theta_y_32),
                            Mul(Mul(der_U_thate, der_that_cos), der_theta_z_32))
        force_j == TriTuple(Sub(Neg(force_i.x), force_k.x),
                            Sub(Neg(force_i.y), force_k.y),
                            Sub(Neg(force_i.z), force_k.z))
    IN  <<force_i, force_j, force_k>>

\* returns the three partial derivatives as a TriTuple
CalculateDerivate(v1, v2, phi) ==
    TriTuple(
        Mul(Div(One, magnitude(v1)),
            Sub(Div(v2.x, magnitude(v2)), Mul(Div(v1.x, magnitude(v1)), Cos(phi)))),
        Mul(Div(One, magnitude(v1)),
            Sub(Div(v2.y, magnitude(v2)), Mul(Div(v1.y, magnitude(v1)), Cos(phi)))),
        Mul(Div(One, magnitude(v1)),
            Sub(Div(v2.z, magnitude(v2)), Mul(Div(v1.z, magnitude(v1)), Cos(phi)))))

\* <<v_t, v_u>> of CalculateProperDihedralsForce
DihedralAuxVectors(atom1, atom2, atom3, atom4) ==
    LET vector12 == CalculateVector(atom1, atom2)
        vector32 == CalculateVector(atom3, atom2)
        vector43 == CalculateVector(atom4, atom3)
    IN  <<Cross(vector12, vector32), Cross(vector43, vector32)>>

\* returns <<force_i, force_j, force_k, force_l>>
CalculateProperDihedralsForce(kd, phi, pn, phase, atom1, atom2, atom3, atom4) ==
    LET der_U_phi == Mul(Mul(Mul(Norm(-1, 2), kd), pn), Sin(Sub(Mul(pn, phi), phase)))
        der_phi_cos == Div(R(-1), Sin(phi))
        s == Mul(der_U_phi, der_phi_cos)
        vector12 == CalculateVector(atom1, atom2)
        vector32 == CalculateVector(atom3, atom2)
        vector43 == CalculateVector(atom4, atom3)
        v_t == DihedralAuxVectors(atom1, atom2, atom3, atom4)[1]
        v_u == DihedralAuxVectors(atom1, atom2, atom3, atom4)[2]
        t == CalculateDerivate(v_t, v_u, phi)
        u == CalculateDerivate(v_u, v_t, phi)
        force_i == TriTuple(
            Mul(s, Add(Mul(t.y, Neg(vector32.z)), Mul(t.z, vector32.y))),
            Mul(s, Add(Mul(t.z, Neg(vector32.x)), Mul(t.x, vector32.z))),
            Mul(s, Add(Mul(t.x, Neg(vector32.y)), Mul(t.y, vector32.x))))
        force_j == TriTuple(
            Mul(s, Add(Mul(t.y, Add(Neg(vector12.z), vector32.z)),
                       Mul(t.z, Add(Neg(vector32.y), vector12.y)))),
            Mul(s, Add(Mul(t.z, Add(Neg(vector12.x), vector32.x)),
                       Mul(t.x, Add(Neg(vector32.z), vector12.z)))),
            Mul(s, Add(Mul(t.x, Add(Neg(vector12.y), vector32.y)),
                       Mul(t.y, Add(Neg(vector32.x), vector12.x)))))
        force_k == TriTuple(
            Mul(s, Sub(Add(Sub(Mul(t.y, vector12.z), Mul(t.z, vector12.y)),
                           Mul(u.y, Add(vector32.z, vector43.z))),
                       Mul(u.z, Add(vector32.y, vector43.y)))),
            Mul(s, Sub(Add(Sub(Mul(t.z, vector12.x), Mul(t.x, vector12.z)),
                           Mul(u.z, Add(vector32.x, vector43.x))),
                       Mul(u.x, Add(vector32.z, vector43.z)))),
            Mul(s, Sub(Add(Sub(Mul(t.x, vector12.y), Mul(t.y, vector12.z)),
                           Mul(u.x, Add(vector32.y, vector43.y))),
                       Mul(u.y, Add(vector32.x, vector43.x)))))
        force_l == TriTuple(
            Mul(s, Add(Mul(u.y, Neg(vector32.z)), Mul(u.z, vector32.y))),
            Mul(s, Add(Mul(u.z, Neg(vector32.x)), Mul(u.x, vector32.z))),
            Mul(s, Add(Mul(u.x, Neg(vector32.y)), Mul(u.y, vector32.x))))
    IN  <<force_i, force_j, force_k, force_l>>

-----------------------------------------------------------------------------
(* Non-bonded term engine: the pair formulas *)

\* the vacuum dielectric permittivity, in the units of the charge table
epsilon == One

\* CalculateElectricForce whose magnitude takes its sign from the first charge
CalculateElectricForceByFirstCharge(a1, a2, r) ==
    LET forceMagnitude ==
            Div(Mul(a1.charge, IF Lt(a2.charge, Zero) THEN Neg(a2.charge) ELSE a2.charge),
                Mul(Mul(Mul(Mul(R(4), Pi), epsilon), r), r))
    IN  TriTuple(Mul(forceMagnitude, Div(Sub(a2.position.x, a1.position.x), r)),
                 Mul(forceMagnitude, Div(Sub(a2.position.y, a1.position.y), r)),
                 Mul(forceMagnitude, Div(Sub(a2.position.z, a1.position.z), r)))

CalculateElectricForce(a1, a2, r) ==
    LET chargeMagnitude == Mul(a1.charge, a2.charge)
        forceMagnitude ==
            IF Lt(Zero, chargeMagnitude)
            THEN Div(chargeMagnitude, Mul(Mul(Mul(Mul(R(4), Pi), epsilon), r), r))
            ELSE Div(Neg(chargeMagnitude), Mul(Mul(Mul(Mul(R(4), Pi), epsilon), r), r))
        unitVector == TriTuple(Div(Sub(a2.position.x, a1.position.x), r),
                               Div(Sub(a2.position.y, a1.position.y), r),
                               Div(Sub(a2.position.z, a1.position.z), r))
    IN  TriTuple(Mul(forceMagnitude, unitVector.x),
                 Mul(forceMagnitude, unitVector.y),
                 Mul(forceMagnitude, unitVector.z))

\* math.Pow(r, 6)
Pow6(r) == Mul(Mul(Mul(r, r), Mul(r, r)), Mul(r, r))

CalculateElectricPotentialEnergy(a1, a2, r) ==
    LET chargeMagnitude == Mul(a1.charge, a2.charge)
    IN  IF Lt(chargeMagnitude, Zero)
        THEN Div(Neg(chargeMagnitude), Mul(Mul(Mul(R(4), Pi), epsilon), r))
        ELSE Div(chargeMagnitude, Mul(Mul(Mul(R(4), Pi), epsilon), r))

\* CalculateLJPotentialEnergy that keeps the sign of A/r^12 - B/r^6
CalculateLJPotentialEnergySigned(B, A, r) ==
    LET r_6 == Pow6(r)
        r_12 == Mul(r_6, r_6)
    IN  Sub(Div(A, r_12), Div(B, r_6))

CalculateLJPotentialEnergy(B, A, r) ==
    LET r_6 == Pow6(r)
        r_12 == Mul(r_6, r_6)
        LJ == Sub(Div(A, r_12), Div(B, r_6))
    IN  IF Lt(LJ, Zero) THEN Neg(LJ) ELSE LJ

CalculateLJForce(a1, a2, B, A, r) ==
    LET r_6 == Pow6(r)
        r_12 == Mul(r_6, r_6)
        forceMagnitude == Div(Add(Div(Mul(R(-12), A), r_12), Div(Mul(R(6), B), r_6)), r)
        unitVector == TriTuple(Div(Sub(a2.position.x, a1.position.x), r),
                               Div(Sub(a2.position.y, a1.position.y), r),
                               Div(Sub(a2.position.z, a1.position.z), r))
    IN  TriTuple(Mul(forceMagnitude, unitVector.x),
                 Mul(forceMagnitude, unitVector.y),
                 Mul(forceMagnitude, unitVector.z))

-----------------------------------------------------------------------------
(* Verlet neighbor list *)

EmptyNeighbors == [a \in {} |-> <<>>]

NewVerletList == [Neighbors |-> EmptyNeighbors, Cutoff |-> verletCutOff, Buffer |-> verletBuffer]

\* Excluded with the window one index too narrow
ExcludedNarrow(atom, otherAtom) ==
    /\ atoms[otherAtom].index >= atoms[atom].index - 2
    /\ atoms[otherAtom].index <= atoms[atom].index + 2

\* Excluded with the upper test forgotten
ExcludedOneSided(atom, otherAtom) ==
    atoms[otherAtom].index >= atoms[atom].index - 3

\* the index-based exclusion of atoms "within 3 bonds"
Excluded(atom, otherAtom) ==
    /\ atoms[otherAtom].index >= atoms[atom].index - 3
    /\ atoms[otherAtom].index <= atoms[atom].index + 3

\* NeighborsOf with the boundary distance left out (< for <=)
NeighborsOfStrict(atom, all, cutoffPlusBuffer) ==
    LET Keep(otherAtom) ==
            /\ atom # otherAtom
            /\ ~Excluded(atom, otherAtom)
            /\ Lt(Distance(atoms[atom].position, atoms[otherAtom].position), cutoffPlusBuffer)
    IN  SelectSeq(all, Keep)

\* NeighborsOf with both `continue` tests forgotten: every atom in range is kept
NeighborsOfAllPairs(atom, all, cutoffPlusBuffer) ==
    LET Keep(otherAtom) ==
            Le(Distance(atoms[atom].position, atoms[otherAtom].position), cutoffPlusBuffer)
    IN  SelectSeq(all, Keep)

\* the list BuildVerlet's inner loops leave under v.Neighbors[atom]
NeighborsOf(atom, all, cutoffPlusBuffer) ==
    LET Keep(otherAtom) ==
            /\ atom # otherAtom
            /\ ~Excluded(atom, otherAtom)
            /\ Le(Distance(atoms[atom].position, atoms[otherAtom].position), cutoffPlusBuffer)
    IN  SelectSeq(all, Keep)

\* BuildVerlet that compares against Cutoff alone
BuildVerletNoBuffer(vl, protein) ==
    LET all == AtomsOf(protein)
    IN  [vl EXCEPT !.Neighbors = [atom \in Range(all) |-> NeighborsOf(atom, all, vl.Cutoff)]]

\* BuildVerlet that updates the old map instead of replacing it
BuildVerletIncremental(vl, protein) ==
    LET cutoffPlusBuffer == Add(vl.Cutoff, vl.Buffer)
        all == AtomsOf(protein)
    IN  [vl EXCEPT !.Neighbors =
            [atom \in Range(all) \cup DOMAIN vl.Neighbors |->
                IF atom \in Range(all) THEN NeighborsOf(atom, all, cutoffPlusBuffer)
                ELSE vl.Neighbors[atom]]]

\* (v *VerletList) BuildVerlet(protein): the VerletList after the call
BuildVerlet(vl, protein) ==
    LET cutoffPlusBuffer == Add(vl.Cutoff, vl.Buffer)
        all == AtomsOf(protein)
    IN  [vl EXCEPT !.Neighbors = [atom \in Range(all) |-> NeighborsOf(atom, all, cutoffPlusBuffer)]]

-----------------------------------------------------------------------------
(* Non-bonded term engine: the pass over all neighbor pairs *)

ParameterPair(names, function, parameter) ==
    [atomName |-> names, Function |-> function, parameter |-> parameter]

Reverse(s) == [i \in DOMAIN s |-> s[Len(s) + 1 - i]]

\* the parameter lookup: the coefficients of the first entry of the kind whose
\* atom names are the atoms' labels in the given order or reversed; empty if none
SearchParameter(kind, db, atom1, atom2) ==
    LET labels == <<atom1.element, atom2.element>>
        Matches(pair) ==
            /\ pair.Function = kind
            /\ (pair.atomName = labels \/ pair.atomName = Reverse(labels))
        found == SelectSeq(db.atomPair, Matches)
    IN  IF found = <<>> THEN <<>> ELSE Head(found).parameter

\* forceMap[key] = value
MapPut(map, key, value) ==
    [i \in DOMAIN map \cup {key} |-> IF i = key THEN value ELSE map[i]]

\* PairStep that hands the two coefficients to the force call in the other order
PairStepSwappedForce(acc, db, atom1, atom2) ==
    LET r == Distance(atom1.position, atom2.position)
        parameterList == SearchParameter(2, db, atom1, atom2)
        LJForce == CalculateLJForce(atom1, atom2, parameterList[2], parameterList[1], r)
        afterLJ ==
            IF Len(parameterList) = 2
            THEN [totalEnergy |->
                      Add(acc.totalEnergy,
                          CalculateLJPotentialEnergy(parameterList[1], parameterList[2], r)),
                  forceMap |->
                      MapPut(acc.forceMap, atom1.index,
                             VecAdd(acc.forceMap[atom1.index], LJForce))]
            ELSE acc
        electricForce == CalculateElectricForce(atom1, atom2, r)
    IN  IF Eq(atom1.charge, Zero) \/ Eq(atom2.charge, Zero)
        THEN afterLJ
        ELSE [totalEnergy |->
                  Add(afterLJ.totalEnergy, CalculateElectricPotentialEnergy(atom1, atom2, r)),
              forceMap |->
                  MapPut(afterLJ.forceMap, atom1.index,
                         VecAdd(afterLJ.forceMap[atom1.index], electricForce))]

\* PairStep that tests the charges before the parameter lookup, so that a pair
\* with an uncharged atom is skipped as a whole
PairStepChargeFirst(acc, db, atom1, atom2) ==
    LET r == Distance(atom1.position, atom2.position)
        parameterList == SearchParameter(2, db, atom1, atom2)
        LJForce == CalculateLJForce(atom1, atom2, parameterList[1], parameterList[2], r)
        afterLJ ==
            IF Len(parameterList) = 2
            THEN [totalEnergy |->
                      Add(acc.totalEnergy,
                          CalculateLJPotentialEnergy(parameterList[1], parameterList[2], r)),
                  forceMap |->
                      MapPut(acc.forceMap, atom1.index,
                             VecAdd(acc.forceMap[atom1.index], LJForce))]
            ELSE acc
        electricForce == CalculateElectricForce(atom1, atom2, r)
    IN  IF Eq(atom1.charge, Zero) \/ Eq(atom2.charge, Zero)
        THEN acc
        ELSE [totalEnergy |->
                  Add(afterLJ.totalEnergy, CalculateElectricPotentialEnergy(atom1, atom2, r)),
              forceMap |->
                  MapPut(afterLJ.forceMap, atom1.index,
                         VecAdd(afterLJ.forceMap[atom1.index], electricForce))]

\* PairStep that stores the Coulomb force instead of adding it to the entry
PairStepOverwrite(acc, db, atom1, atom2) ==
    LET r == Distance(atom1.position, atom2.position)
        parameterList == SearchParameter(2, db, atom1, atom2)
        LJForce == CalculateLJForce(atom1, atom2, parameterList[1], parameterList[2], r)
        afterLJ ==
            IF Len(parameterList) = 2
            THEN [totalEnergy |->
                      Add(acc.totalEnergy,
                          CalculateLJPotentialEnergy(parameterList[1], parameterList[2], r)),
                  forceMap |->
                      MapPut(acc.forceMap, atom1.index,
                             VecAdd(acc.forceMap[atom1.index], LJForce))]
            ELSE acc
        electricForce == CalculateElectricForce(atom1, atom2, r)
    IN  IF Eq(atom1.charge, Zero) \/ Eq(atom2.charge, Zero)
        THEN afterLJ
        ELSE [totalEnergy |->
                  Add(afterLJ.totalEnergy, CalculateElectricPotentialEnergy(atom1, atom2, r)),
              forceMap |-> MapPut(afterLJ.forceMap, atom1.index, electricForce)]

\* one iteration of the loop over atom1's neighbors; acc = [totalEnergy, forceMap]
PairStep(acc, db, atom1, atom2) ==
    LET r == Distance(atom1.position, atom2.position)
        parameterList == SearchParameter(2, db, atom1, atom2)
        LJForce == CalculateLJForce(atom1, atom2, parameterList[1], parameterList[2], r)
        afterLJ ==
            IF Len(parameterList) = 2
            THEN [totalEnergy |->
                      Add(acc.totalEnergy,
                          CalculateLJPotentialEnergy(parameterList[1], parameterList[2], r)),
                  forceMap |->
                      MapPut(acc.forceMap, atom1.index,
                             VecAdd(acc.forceMap[atom1.index], LJForce))]
            ELSE acc
        electricForce == CalculateElectricForce(atom1, atom2, r)
    IN  IF Eq(atom1.charge, Zero) \/ Eq(atom2.charge, Zero)
        THEN afterLJ
        ELSE [totalEnergy |->
                  Add(afterLJ.totalEnergy, CalculateElectricPotentialEnergy(atom1, atom2, r)),
              forceMap |->
                  MapPut(afterLJ.forceMap, atom1.index,
                         VecAdd(afterLJ.forceMap[atom1.index], electricForce))]

RECURSIVE NeighborLoop(_, _, _, _)
\* the loop over the neighbors of atom1
NeighborLoop(acc, db, atom1, neighbors) ==
    IF neighbors = <<>> THEN acc
    ELSE NeighborLoop(PairStep(acc, db, atoms[atom1], atoms[Head(neighbors)]),
                      db, atom1, Tail(neighbors))

RECURSIVE AtomLoop(_, _, _, _)
\* the loops over the residues and their atoms
AtomLoop(acc, db, verletList, rest) ==
    IF rest = <<>> THEN acc
    ELSE LET atom1 == Head(rest)
             cleared == [acc EXCEPT !.forceMap = MapPut(@, atoms[atom1].index, ZeroVec)]
         IN  AtomLoop(IF atom1 \in DOMAIN verletList.Neighbors
                      THEN NeighborLoop(cleared, db, atom1, verletList.Neighbors[atom1])
                      ELSE cleared,
                      db, verletList, Tail(rest))

\* returns [totalEnergy, forceMap]
CalculateTotalUnbondedEnergyForce(p, nonbondedParameter) ==
    LET verletList == BuildVerlet(NewVerletList, p)
    IN  AtomLoop([totalEnergy |-> Zero, forceMap |-> [i \in {} |-> ZeroVec]],
                 nonbondedParameter, verletList, AtomsOf(p))

-----------------------------------------------------------------------------
(* Bounds and inputs of the neighbor-list machine *)

MaxStride == 4      \* atom indices are base + stride * position, stride in 0..MaxStride
MaxCutoff == 2      \* Cutoff in 0..MaxCutoff
MaxBuffer == 3      \* Buffer in 0..MaxBuffer

Points == {Vec(0, 0, 0), Vec(3, 0, 0), Vec(0, 4, 0)}

AtomPtrs == 1..5

\* protein 1 has two residues, protein 2 one, protein 3 none
ProteinLayout ==
    [p \in 1..3 |->
        CASE p = 1 -> Protein("p1", <<Residue("ALA", 1, <<1, 2>>), Residue("GLY", 2, <<3>>)>>)
          [] p = 2 -> Protein("p2", <<Residue("SER", 1, <<4, 5>>)>>)
          [] p = 3 -> Protein("p3", <<>>)]

NoCall == [op |-> "none"]

Init ==
    /\ \E stride \in 0..MaxStride, pos \in [AtomPtrs -> Points] :
          atoms = [a \in AtomPtrs |-> Atom(1 + stride * (a - 1), pos[a], "C", Zero)]
    /\ proteins = ProteinLayout
    /\ verletCutOff \in {R(c) : c \in 0..MaxCutoff}
    /\ verletBuffer \in {R(b) : b \in 0..MaxBuffer}
    /\ v = NewVerletList
    /\ lastBuilt = 0
    /\ prevBuilt = 0
    /\ fcall = NoCall
    /\ fret = NoCall

NewVerletListCall ==
    /\ v' = NewVerletList
    /\ lastBuilt' = 0
    /\ prevBuilt' = 0
    /\ UNCHANGED <<atoms, proteins, verletCutOff, verletBuffer, fcall, fret>>

BuildVerletCall(p) ==
    /\ v' = BuildVerlet(v, proteins[p])
    /\ lastBuilt' = p
    /\ prevBuilt' = lastBuilt
    /\ UNCHANGED <<atoms, proteins, verletCutOff, verletBuffer, fcall, fret>>

Next ==
    \/ NewVerletListCall
    \/ \E p \in DOMAIN proteins : BuildVerletCall(p)

Spec == Init /\ [][Next]_vars

-----------------------------------------------------------------------------
(* Single calls of the force routines on given arguments *)

\* four points, no two of which share a coordinate
ForcePoints == {Vec(0, 1, 2), Vec(1, 2, 0), Vec(2, 0, 1), Vec(3, 3, 3)}

ForceConstants == {R(1), R(100)}
ThetaValues == {Norm(1, 2), R(1), R(2)}
Theta0Values == {R(1), Norm(3, 2)}
PhiValues == {Norm(1, 2), R(1), R(2)}
MultiplicityValues == {R(1), R(2)}
PhaseValues == {Zero, R(3)}
ChargeValues == {R(-1), R(1), R(2)}

PlacedAtom(position, charge) == Atom(0, position, "C", charge)

Injective(f) == \A i \in DOMAIN f : \A j \in DOMAIN f : f[i] = f[j] => i = j

AngleForceCalls ==
    {[op |-> "CalculateAngleForce", k |-> k, theta |-> theta, theta_0 |-> theta_0,
      atom1 |-> PlacedAtom(pos[1], Zero), atom2 |-> PlacedAtom(pos[2], Zero),
      atom3 |-> PlacedAtom(pos[3], Zero)] :
        k \in ForceConstants, theta \in ThetaValues, theta_0 \in Theta0Values,
        pos \in {f \in [1..3 -> ForcePoints] : Injective(f)}}

DihedralsForceCalls ==
    {[op |-> "CalculateProperDihedralsForce", kd |-> kd, phi |-> phi, pn |-> pn, phase |-> phase,
      atom1 |-> PlacedAtom(pos[1], Zero), atom2 |-> PlacedAtom(pos[2], Zero),
      atom3 |-> PlacedAtom(pos[3], Zero), atom4 |-> PlacedAtom(pos[4], Zero)] :
        kd \in ForceConstants, phi \in PhiValues, pn \in MultiplicityValues,
        phase \in PhaseValues, pos \in {f \in [1..4 -> ForcePoints] : Injective(f)}}

\* callers pass r = Distance(a1.position, a2.position)
ElectricForceCalls ==
    {[op |-> "CalculateElectricForce", a1 |-> PlacedAtom(pos[1], q[1]),
      a2 |-> PlacedAtom(pos[2], q[2]), r |-> Distance(pos[1], pos[2])] :
        q \in [1..2 -> ChargeValues],
        pos \in {f \in [1..2 -> Points \cup ForcePoints] : Injective(f)}}

\* three points whose pairwise distances are 3/2, 2 and 5/2
BondPoints == {Vec(0, 0, 0), TriTuple(Norm(3, 2), Zero, Zero), Vec(0, 2, 0)}

RestLengths == {R(1), Norm(3, 2), R(2), Norm(5, 2)}

\* callers pass r = Distance(atom1.position, atom2.position)
BondForceCalls ==
    {[op |-> "CalculateBondForce", k |-> k, r |-> Distance(pos[1], pos[2]), r_0 |-> r_0,
      atom1 |-> PlacedAtom(pos[1], Zero), atom2 |-> PlacedAtom(pos[2], Zero)] :
        k \in ForceConstants, r_0 \in RestLengths,
        pos \in {f \in [1..2 -> BondPoints] : Injective(f)}}

LengthValues == {R(-1), Zero, R(1), Norm(3, 2), R(2), Norm(5, 2)}

BondStretchEnergyCalls ==
    {[op |-> "CalculateBondStretchEnergy", k |-> k, r |-> r, r_0 |-> r_0] :
        k \in ForceConstants, r \in LengthValues, r_0 \in LengthValues}

VectorValues ==
    ForcePoints \cup {ZeroVec, Vec(-1, 2, -3), Vec(2, -4, 6),
                      TriTuple(Norm(1, 2), Norm(-3, 4), R(5))}

NormalVectorCalls ==
    {[op |-> "BuildNormalVector", vector1 |-> v1, vector2 |-> v2] :
        v1 \in VectorValues, v2 \in VectorValues}

CrossCalls ==
    {[op |-> "Cross", v1 |-> v1, v2 |-> v2] : v1 \in VectorValues, v2 \in VectorValues}

\* four points all of whose distances are whole numbers
AnglePoints == {Vec(0, 0, 0), Vec(3, 0, 0), Vec(0, 4, 0), Vec(-3, 0, 0)}

AngleCalls ==
    {[op |-> "CalculateAngle", atom1 |-> PlacedAtom(pos[1], Zero),
      atom2 |-> PlacedAtom(pos[2], Zero), atom3 |-> PlacedAtom(pos[3], Zero)] :
        pos \in {f \in [1..3 -> AnglePoints] : Injective(f)}}

DihedralAngleCalls ==
    {[op |-> "CalculateDihedralAngle", atom1 |-> PlacedAtom(pos[1], Zero),
      atom2 |-> PlacedAtom(pos[2], Zero), atom3 |-> PlacedAtom(pos[3], Zero),
      atom4 |-> PlacedAtom(pos[4], Zero)] :
        pos \in {f \in [1..4 -> ForcePoints] : Injective(f)}}

InitFn ==
    /\ fcall \in AngleForceCalls \cup DihedralsForceCalls \cup ElectricForceCalls
                  \cup BondForceCalls \cup BondStretchEnergyCalls \cup NormalVectorCalls
                  \cup CrossCalls \cup AngleCalls \cup DihedralAngleCalls
    /\ fret = NoCall
    /\ atoms = <<>>
    /\ proteins = <<>>
    /\ verletCutOff = Zero
    /\ verletBuffer = Zero
    /\ v = NewVerletList
    /\ lastBuilt = 0
    /\ prevBuilt = 0

Returned(op) == fcall.op = op /\ fret # NoCall

CalculateAngleForceCall ==
    /\ fcall.op = "CalculateAngleForce" /\ fret = NoCall
    /\ fret' = CalculateAngleForce(fcall.k, fcall.theta, fcall.theta_0,
                                   fcall.atom1, fcall.atom2, fcall.atom3)
    /\ UNCHANGED <<atoms, proteins, v, lastBuilt, prevBuilt, verletCutOff, verletBuffer, fcall>>

CalculateProperDihedralsForceCall ==
    /\ fcall.op = "CalculateProperDihedralsForce" /\ fret = NoCall
    /\ fret' = CalculateProperDihedralsForce(fcall.kd, fcall.phi, fcall.pn, fcall.phase,
                                             fcall.atom1, fcall.atom2, fcall.atom3, fcall.atom4)
    /\ UNCHANGED <<atoms, proteins, v, lastBuilt, prevBuilt, verletCutOff, verletBuffer, fcall>>

CalculateElectricForceCall ==
    /\ fcall.op = "CalculateElectricForce" /\ fret = NoCall
    /\ fret' = CalculateElectricForce(fcall.a1, fcall.a2, fcall.r)
    /\ UNCHANGED <<atoms, proteins, v, lastBuilt, prevBuilt, verletCutOff, verletBuffer, fcall>>

CalculateBondForceCall ==
    /\ fcall.op = "CalculateBondForce" /\ fret = NoCall
    /\ fret' = CalculateBondForce(fcall.k, fcall.r, fcall.r_0, fcall.atom1, fcall.atom2)
    /\ UNCHANGED <<atoms, proteins, v, lastBuilt, prevBuilt, verletCutOff, verletBuffer, fcall>>

CalculateBondStretchEnergyCall ==
    /\ fcall.op = "CalculateBondStretchEnergy" /\ fret = NoCall
    /\ fret' = CalculateBondStretchEnergy(fcall.k, fcall.r, fcall.r_0)
    /\ UNCHANGED <<atoms, proteins, v, lastBuilt, prevBuilt, verletCutOff, verletBuffer, fcall>>

BuildNormalVectorCall ==
    /\ fcall.op = "BuildNormalVector" /\ fret = NoCall
    /\ fret' = BuildNormalVector(fcall.vector1, fcall.vector2)
    /\ UNCHANGED <<atoms, proteins, v, lastBuilt, prevBuilt, verletCutOff, verletBuffer, fcall>>

CrossCall ==
    /\ fcall.op = "Cross" /\ fret = NoCall
    /\ fret' = Cross(fcall.v1, fcall.v2)
    /\ UNCHANGED <<atoms, proteins, v, lastBuilt, prevBuilt, verletCutOff, verletBuffer, fcall>>

\* the float64 result is wrapped in a record
CalculateAngleCall ==
    /\ fcall.op = "CalculateAngle" /\ fret = NoCall
    /\ fret' = [angle |-> CalculateAngle(fcall.atom1, fcall.atom2, fcall.atom3)]
    /\ UNCHANGED <<atoms, proteins, v, lastBuilt, prevBuilt, verletCutOff, verletBuffer, fcall>>

CalculateDihedralAngleCall ==
    /\ fcall.op = "CalculateDihedralAngle" /\ fret = NoCall
    /\ fret' = [angle |-> CalculateDihedralAngle(fcall.atom1, fcall.atom2,
                                                  fcall.atom3, fcall.atom4)]
    /\ UNCHANGED <<atoms, proteins, v, lastBuilt, prevBuilt, verletCutOff, verletBuffer, fcall>>

NextFn ==
    \/ CalculateAngleForceCall
    \/ CalculateProperDihedralsForceCall
    \/ CalculateElectricForceCall
    \/ CalculateBondForceCall
    \/ CalculateBondStretchEnergyCall
    \/ BuildNormalVectorCall
    \/ CrossCall
    \/ CalculateAngleCall
    \/ CalculateDihedralAngleCall

SpecFn == InitFn /\ [][NextFn]_vars

-----------------------------------------------------------------------------
(* The non-bonded pass on a loaded protein *)

\* atom indices as the structure file gives them (repeats included)
IndexValues == {1, 2, 6, 11}

\* atoms lie at distinct places 0, 1, 2 along one axis
LineCoords == 0..2
LineAxes == {Vec(1, 0, 0), Vec(0, 0, 1)}

\* element label and charge of an atom
AtomKinds == {<<"C", Zero>>, <<"N", R(1)>>, <<"O", R(-1)>>}

\* Lennard-Jones entries for C-C, N-C and N-N; none for C-O and N-O, and an
\* entry with three coefficients for O-O
NonbondedDatabase ==
    [atomPair |-> <<ParameterPair(<<"C", "C">>, 2, <<R(4), R(1)>>),
                    ParameterPair(<<"N", "C">>, 2, <<R(2), R(3)>>),
                    ParameterPair(<<"N", "N">>, 1, <<R(7)>>),
                    ParameterPair(<<"N", "N">>, 2, <<R(1), R(2)>>),
                    ParameterPair(<<"O", "O">>, 2, <<R(1), R(2), R(3)>>)>>]

UnbondedAtomPtrs == 1..3

UnbondedLayout ==
    [p \in 1..2 |->
        CASE p = 1 -> Protein("p1", <<Residue("ALA", 1, <<1, 2>>), Residue("GLY", 2, <<3>>)>>)
          [] p = 2 -> Protein("p2", <<>>)]

InitUnbonded ==
    /\ \E idx \in [UnbondedAtomPtrs -> IndexValues],
          coord \in {f \in [UnbondedAtomPtrs -> LineCoords] : Injective(f)},
          axis \in LineAxes,
          kind \in [UnbondedAtomPtrs -> AtomKinds] :
          atoms = [a \in UnbondedAtomPtrs |->
                      Atom(idx[a],
                           TriTuple(Mul(R(coord[a]), axis.x), Mul(R(coord[a]), axis.y),
                                    Mul(R(coord[a]), axis.z)),
                           kind[a][1], kind[a][2])]
    /\ proteins = UnbondedLayout
    /\ verletCutOff = One
    /\ verletBuffer \in {Zero, One}
    /\ v = NewVerletList
    /\ lastBuilt = 0
    /\ prevBuilt = 0
    /\ fcall = NoCall
    /\ fret = NoCall

CalculateTotalUnbondedEnergyForceCall(p) ==
    /\ fcall = NoCall
    /\ fcall' = [op |-> "CalculateTotalUnbondedEnergyForce", p |-> p]
    /\ fret' = CalculateTotalUnbondedEnergyForce(proteins[p], NonbondedDatabase)
    /\ UNCHANGED <<atoms, proteins, v, lastBuilt, prevBuilt, verletCutOff, verletBuffer>>

NextUnbonded == \E p \in DOMAIN proteins : CalculateTotalUnbondedEnergyForceCall(p)

SpecUnbonded == InitUnbonded /\ [][NextUnbonded]_vars

-----------------------------------------------------------------------------
(* Minimizer: snapshots, steepest descent and the acceptance loop *)

\* the smallest pointer not in use
Fresh(used) ==
    CHOOSE n \in 1..(Cardinality(used) + 1) :
        n \notin used /\ \A m \in 1..(n - 1) : m \in used

CopyTriTuple(tri) == TriTuple(tri.x, tri.y, tri.z)

\* var newAtom Atom leaves the fields that are not assigned at their zero values
CopyAtom(currAtom) ==
    [index |-> 0,
     position |-> CopyTriTuple(currAtom.position),
     velocity |-> CopyTriTuple(currAtom.velocity),
     force |-> CopyTriTuple(currAtom.force),
     accelerated |-> CopyTriTuple(currAtom.accelerated),
     mass |-> currAtom.mass,
     element |-> currAtom.element,
     charge |-> Zero]

\* the loop that hands out the pointers of the original's atoms
CopyAtomsShared(heap, ptrs) == [atoms |-> heap, Atoms |-> ptrs]

RECURSIVE CopyAtoms(_, _)
\* the loop of CopyResidue: returns the atom heap with the new atoms and their pointers
CopyAtoms(heap, ptrs) ==
    IF ptrs = <<>> THEN [atoms |-> heap, Atoms |-> <<>>]
    ELSE LET n == Fresh(DOMAIN heap)
             rest == CopyAtoms(MapPut(heap, n, CopyAtom(heap[Head(ptrs)])), Tail(ptrs))
         IN  [atoms |-> rest.atoms, Atoms |-> <<n>> \o rest.Atoms]

CopyResidue(heap, currRes) ==
    LET c == CopyAtoms(heap, currRes.Atoms)
    IN  [atoms |-> c.atoms,
         residue |-> [Name |-> currRes.Name, ID |-> currRes.ID, ChainID |-> currRes.ChainID,
                      Atoms |-> c.Atoms]]

RECURSIVE CopyResidues(_, _)
\* the loop of CopyProtein
CopyResidues(heap, residues) ==
    IF residues = <<>> THEN [atoms |-> heap, Residue |-> <<>>]
    ELSE LET c == CopyResidue(heap, Head(residues))
             rest == CopyResidues(c.atoms, Tail(residues))
         IN  [atoms |-> rest.atoms, Residue |-> <<c.residue>> \o rest.Residue]

\* returns the two heaps with the new objects and the pointer to the new protein
CopyProtein(atomHeap, proteinHeap, currentProtein) ==
    LET c == CopyResidues(atomHeap, proteinHeap[currentProtein].Residue)
        n == Fresh(DOMAIN proteinHeap)
    IN  [atoms |-> c.atoms,
         proteins |-> MapPut(proteinHeap, n,
                             [Name |-> proteinHeap[currentProtein].Name, Residue |-> c.Residue]),
         ptr |-> n]

CalculateTotalEnergy(p) == One

CalculateNetForce(a) == Vec(1, 1, 1)

\* The step size h runs from 1e-2 down to the underflow of float64, out of the range
\* of the rationals above: it is kept as the exponents <<e2, e3, e5>> of
\* 2^e2 * 3^e3 * 5^e5, or <<>> for 0.
H(e2, e3, e5) == <<e2, e3, e5>>
HZero == <<>>

\* 1000 * log2 of a non-zero step size
Log2Milli(h) == 1000 * h[1] + 1585 * h[2] + 2322 * h[3]

\* a float64 product below 2^-1075 is 0
UnderflowLog2 == -1075

HMul(x, y) ==
    IF x = HZero \/ y = HZero THEN HZero
    ELSE LET z == <<x[1] + y[1], x[2] + y[2], x[3] + y[3]>>
         IN  IF Log2Milli(z) < UnderflowLog2 * 1000 THEN HZero ELSE z

HLt(x, y) ==
    /\ y # HZero
    /\ x = HZero \/ Log2Milli(x) < Log2Milli(y)

RECURSIVE Pow(_, _)
Pow(b, e) == IF e <= 0 THEN 1 ELSE b * Pow(b, e - 1)

\* a step below 2^-StepBits is lost when it is added to a position
StepBits == 17

\* the step size as a float64 of the position arithmetic
HValue(h) ==
    IF h = HZero \/ Log2Milli(h) < -(StepBits * 1000) THEN Zero
    ELSE Norm(Pow(2, h[1]) * Pow(3, h[2]) * Pow(5, h[3]),
              Pow(2, -h[1]) * Pow(3, -h[2]) * Pow(5, -h[3]))

RECURSIVE DescendAtoms(_, _, _, _)
\* the inner loop of SteepestDescent, from the atom at place j on
DescendAtoms(heap, ptrs, j, h) ==
    IF j > Len(ptrs) THEN heap
    ELSE LET force == CalculateNetForce(j - 1)
             magn == magnitude(force)
             pos == heap[ptrs[j]].position
             moved == TriTuple(Add(pos.x, Div(Mul(force.x, HValue(h)), magn)),
                               Add(pos.y, Div(Mul(force.y, HValue(h)), magn)),
                               Add(pos.z, Div(Mul(force.z, HValue(h)), magn)))
         IN  DescendAtoms([heap EXCEPT ![ptrs[j]].position = moved], ptrs, j + 1, h)

RECURSIVE DescendResidues(_, _, _)
DescendResidues(heap, residues, h) ==
    IF residues = <<>> THEN heap
    ELSE DescendResidues(DescendAtoms(heap, Head(residues).Atoms, 1, h), Tail(residues), h)

\* SteepestDescent that stops after the first residue
SteepestDescentFirstResidue(heap, protein, h) ==
    IF protein.Residue = <<>> THEN heap
    ELSE DescendAtoms(heap, Head(protein.Residue).Atoms, 1, h)

\* moves the atoms of the protein in place: returns the atom heap
SteepestDescent(heap, protein, h) == DescendResidues(heap, protein.Residue, h)

iteration == 100

InitialStep == H(-2, 0, -2)

\* the loop that also runs for i = iteration
LoopContinuesInclusive(i) == i <= iteration

LoopContinues(i) == i < iteration

\* the update that shrinks h to 0.2*h
DecideLinearShrink(currentProtein, tempProtein, h, initialEnergy, updatedEnergy) ==
    IF Lt(updatedEnergy, initialEnergy)
    THEN [currentProtein |-> tempProtein, h |-> HMul(h, H(1, 1, -1))]
    ELSE [currentProtein |-> currentProtein, h |-> HMul(h, H(0, 0, -1))]

\* the if/else that also accepts a trial of equal energy
DecideAcceptOnEqual(currentProtein, tempProtein, h, initialEnergy, updatedEnergy) ==
    IF Le(updatedEnergy, initialEnergy)
    THEN [currentProtein |-> tempProtein, h |-> HMul(h, H(1, 1, -1))]
    ELSE [currentProtein |-> currentProtein, h |-> HMul(h, HMul(H(0, 0, -1), h))]

\* the if/else that ends an iteration: h *= 1.2, or h *= 0.2 * h
Decide(currentProtein, tempProtein, h, initialEnergy, updatedEnergy) ==
    IF Lt(updatedEnergy, initialEnergy)
    THEN [currentProtein |-> tempProtein, h |-> HMul(h, H(1, 1, -1))]
    ELSE [currentProtein |-> currentProtein, h |-> HMul(h, HMul(H(0, 0, -1), h))]

\* the proteins the caller holds
CallerProteins == DOMAIN UnbondedLayout

\* the heaps without the proteins that neither the caller nor the loop refers to
Collect(atomHeap, proteinHeap, keep) ==
    LET dead == DOMAIN proteinHeap \ keep
        liveAtoms == UNION {Range(AtomsOf(proteinHeap[q])) : q \in keep}
        deadAtoms == UNION {Range(AtomsOf(proteinHeap[q])) : q \in dead} \ liveAtoms
    IN  [atoms |-> [a \in DOMAIN atomHeap \ deadAtoms |-> atomHeap[a]],
         proteins |-> [q \in keep |-> proteinHeap[q]]]

MinimizerIndices == {<<1, 5, 9>>, <<1, 2, 6>>}

StepSizes == {InitialStep, H(-1, 0, 0), H(1, 0, 0), HZero}

InitMinimize ==
    /\ \E idx \in MinimizerIndices,
          coord \in {f \in [UnbondedAtomPtrs -> LineCoords] : Injective(f)},
          kind \in [UnbondedAtomPtrs -> AtomKinds] :
          atoms = [a \in UnbondedAtomPtrs |->
                      [Atom(idx[a], Vec(0, 0, coord[a]), kind[a][1], kind[a][2])
                          EXCEPT !.mass = R(12), !.velocity = Vec(1, 0, -1),
                                 !.force = Vec(0, 2, 0), !.accelerated = Vec(0, 0, 3)]]
    /\ proteins = UnbondedLayout
    /\ verletCutOff = One
    /\ verletBuffer = One
    /\ v = NewVerletList
    /\ lastBuilt = 0
    /\ prevBuilt = 0
    /\ fcall = NoCall
    /\ fret = NoCall

CopyProteinCall(p) ==
    /\ fcall = NoCall
    /\ LET c == CopyProtein(atoms, proteins, p)
       IN  /\ atoms' = c.atoms
           /\ proteins' = c.proteins
           /\ fret' = [protein |-> c.ptr]
    /\ fcall' = [op |-> "CopyProtein", p |-> p]
    /\ UNCHANGED <<v, lastBuilt, prevBuilt, verletCutOff, verletBuffer>>

SteepestDescentCall(p, h) ==
    /\ fcall = NoCall
    /\ atoms' = SteepestDescent(atoms, proteins[p], h)
    /\ fcall' = [op |-> "SteepestDescent", p |-> p, h |-> h]
    /\ fret' = [protein |-> p]
    /\ UNCHANGED <<proteins, v, lastBuilt, prevBuilt, verletCutOff, verletBuffer>>

\* entry of PerformEnergyMinimization: iteration := 100, h := 0.01, i := 0
PerformEnergyMinimizationCall(p) ==
    /\ fcall = NoCall
    /\ fcall' = [op |-> "PerformEnergyMinimization", p |-> p, i |-> 0, h |-> InitialStep,
                 currentProtein |-> p, tempProtein |-> 0,
                 initialEnergy |-> Zero, updatedEnergy |-> Zero]
    /\ UNCHANGED <<atoms, proteins, v, lastBuilt, prevBuilt, verletCutOff, verletBuffer, fret>>

\* the loop condition holds in a call that has not returned
IterateEnabled ==
    /\ fcall.op = "PerformEnergyMinimization" /\ fret = NoCall
    /\ LoopContinues(fcall.i)

\* one pass through the loop body
Iterate ==
    /\ IterateEnabled
    /\ LET live == Collect(atoms, proteins, CallerProteins \cup {fcall.currentProtein})
           initialEnergy == CalculateTotalEnergy(live.proteins[fcall.currentProtein])
           c == CopyProtein(live.atoms, live.proteins, fcall.currentProtein)
           moved == SteepestDescent(c.atoms, c.proteins[c.ptr], fcall.h)
           updatedEnergy == CalculateTotalEnergy(c.proteins[c.ptr])
           d == Decide(fcall.currentProtein, c.ptr, fcall.h, initialEnergy, updatedEnergy)
       IN  /\ atoms' = moved
           /\ proteins' = c.proteins
           /\ fcall' = [fcall EXCEPT !.i = @ + 1, !.h = d.h,
                                     !.currentProtein = d.currentProtein,
                                     !.tempProtein = c.ptr,
                                     !.initialEnergy = initialEnergy,
                                     !.updatedEnergy = updatedEnergy]
    /\ UNCHANGED <<v, lastBuilt, prevBuilt, verletCutOff, verletBuffer, fret>>

\* return currentProtein
PerformEnergyMinimizationReturn ==
    /\ fcall.op = "PerformEnergyMinimization" /\ fret = NoCall
    /\ ~LoopContinues(fcall.i)
    /\ fret' = [protein |-> fcall.currentProtein]
    /\ UNCHANGED <<atoms, proteins, v, lastBuilt, prevBuilt, verletCutOff, verletBuffer, fcall>>

NextMinimize ==
    \/ \E p \in DOMAIN proteins : CopyProteinCall(p)
    \/ \E p \in DOMAIN proteins, h \in StepSizes : SteepestDescentCall(p, h)
    \/ \E p \in DOMAIN proteins : PerformEnergyMinimizationCall(p)
    \/ Iterate
    \/ PerformEnergyMinimizationReturn

SpecMinimize == InitMinimize /\ [][NextMinimize]_vars

\* the runs on proteins of nitrogen atoms with the indices 1, 5, 9
InitMinimizeNitrogen ==
    /\ InitMinimize
    /\ \A a \in UnbondedAtomPtrs : atoms[a].element = "N" /\ atoms[a].index = 4 * a - 3

\* the loop is not suspended: an iteration or a return that can run does.  The
\* first condition is WF_vars(Iterate) with ENABLED <<Iterate>>_vars written as
\* IterateEnabled (an iteration always increments i).
SpecMinimizeFair ==
    /\ InitMinimizeNitrogen
    /\ [][NextMinimize]_vars
    /\ ([]<>(~IterateEnabled) \/ []<><<Iterate>>_vars)
    /\ WF_vars(PerformEnergyMinimizationReturn)

-----------------------------------------------------------------------------
(* Readers of the structure file and of the parameter table; masses and charges *)

\* A line is kept as strings.Fields leaves it: the sequence of its fields.  Go
\* counts the fields from 0, a sequence from 1: fields[k] of the code is
\* fields[k + 1] here.

\* the fields that strconv.ParseFloat accepts, with their values
FloatFields == {"0", "1", "2", "5", "1.5", "2.5"}

FloatOf(s) ==
    CASE s = "0" -> Zero [] s = "1" -> R(1) [] s = "2" -> R(2) [] s = "5" -> R(5)
      [] s = "1.5" -> Norm(3, 2) [] s = "2.5" -> Norm(5, 2)

\* the fields that strconv.Atoi accepts
IntFields == {"0", "1", "2", "5"}

IntOf(s) == CASE s = "0" -> 0 [] s = "1" -> 1 [] s = "2" -> 2 [] s = "5" -> 5

\* strconv.ParseFloat(s, 64): the value, or 0 and an error
ParseFloat(s) ==
    IF s \in FloatFields THEN [value |-> FloatOf(s), err |-> FALSE]
    ELSE [value |-> Zero, err |-> TRUE]

\* strconv.Atoi(s): the value, or 0 and an error
Atoi(s) ==
    IF s \in IntFields THEN [value |-> IntOf(s), err |-> FALSE]
    ELSE [value |-> 0, err |-> TRUE]

\* outcomes of a reader other than a result: a returned error, a run-time panic
\* (index or slice bounds out of range)
Failed == [kind |-> "err"]
Panicked == [kind |-> "panic"]

\* returns the atom and the residue name, or an error; the coordinates are
\* fields[6..8], the element fields[2], the index fields[1], the residue fields[3]
parsePDBLine(fields) ==
    IF Len(fields) < 7 THEN Panicked
    ELSE IF ParseFloat(fields[7]).err THEN Failed
    ELSE IF Len(fields) < 8 THEN Panicked
    ELSE IF ParseFloat(fields[8]).err THEN Failed
    ELSE IF Len(fields) < 9 THEN Panicked
    ELSE IF ParseFloat(fields[9]).err THEN Failed
    ELSE [kind |-> "ok",
          atom |-> Atom(Atoi(fields[2]).value,
                        TriTuple(ParseFloat(fields[7]).value, ParseFloat(fields[8]).value,
                                 ParseFloat(fields[9]).value),
                        fields[3], Zero),
          residueName |-> fields[4]]

\* strings.HasPrefix(line, "ATOM")
IsAtomLine(fields) == fields # <<>> /\ Head(fields) = "ATOM"

RECURSIVE ScanPDB(_, _, _, _)
\* the scanner loop of readProteinFromFile: the residues appended so far and
\* currentResidue (<<>> for nil, else the one residue)
ScanPDB(heap, residues, currentResidue, lines) ==
    IF lines = <<>> THEN [kind |-> "ok", atoms |-> heap, Residue |-> residues \o currentResidue]
    ELSE IF ~IsAtomLine(Head(lines)) THEN ScanPDB(heap, residues, currentResidue, Tail(lines))
    ELSE LET parsed == parsePDBLine(Head(lines))
             n == Fresh(DOMAIN heap)
         IN  IF parsed.kind # "ok" THEN parsed
             ELSE IF currentResidue = <<>> \/ currentResidue[1].Name # parsed.residueName
             THEN ScanPDB(MapPut(heap, n, parsed.atom), residues \o currentResidue,
                          <<[Name |-> parsed.residueName, ID |-> 0, ChainID |-> "",
                             Atoms |-> <<n>>]>>,
                          Tail(lines))
             ELSE ScanPDB(MapPut(heap, n, parsed.atom), residues,
                          <<[currentResidue[1] EXCEPT !.Atoms = Append(@, n)]>>,
                          Tail(lines))

massTable ==
    [e \in {"H", "C", "N", "O", "S"} |->
        CASE e = "H" -> Norm(10079, 10000) [] e = "C" -> Norm(120107, 10000)
          [] e = "N" -> Norm(140067, 10000) [] e = "O" -> Norm(159994, 10000)
          [] e = "S" -> Norm(32065, 1000)]

\* string(atom.element[0]) for the labels of the structure files read here
FirstCharacter(element) ==
    CASE element \in {"C", "CA", "CB"} -> "C"
      [] element \in {"N", "NZ"} -> "N"
      [] element \in {"O", "OG"} -> "O"
      [] element \in {"H", "HA"} -> "H"
      [] element \in {"S", "SG"} -> "S"
      [] element \in {"X", "XE"} -> "X"

\* UpdateMasses that looks the whole label up
UpdateMassesByLabel(heap, p, table) ==
    [a \in DOMAIN heap |->
        IF a \in Range(AtomsOf(p))
        THEN [heap[a] EXCEPT !.mass = IF heap[a].element \in DOMAIN table
                                      THEN table[heap[a].element] ELSE Zero]
        ELSE heap[a]]

\* (p *Protein) UpdateMasses(massTable): the atom heap after the call
UpdateMasses(heap, p, table) ==
    [a \in DOMAIN heap |->
        IF a \in Range(AtomsOf(p))
        THEN LET baseElement == FirstCharacter(heap[a].element)
             IN  [heap[a] EXCEPT !.mass = IF baseElement \in DOMAIN table
                                          THEN table[baseElement] ELSE Zero]
        ELSE heap[a]]

\* returns the two heaps with the loaded protein and its pointer, or an error
readProteinFromFile(atomHeap, proteinHeap, lines) ==
    LET s == ScanPDB(atomHeap, <<>>, <<>>, lines)
        n == Fresh(DOMAIN proteinHeap)
        protein == [Name |-> "", Residue |-> s.Residue]
    IN  IF s.kind # "ok"
        THEN [kind |-> s.kind, atoms |-> atomHeap, proteins |-> proteinHeap, ptr |-> 0]
        ELSE [kind |-> "ok", atoms |-> UpdateMasses(s.atoms, protein, massTable),
              proteins |-> MapPut(proteinHeap, n, protein), ptr |-> n]

\* the loop body of AssignChargesToProtein that leaves an unmatched atom's charge
AssignChargesResidueKeepUnmatched(heap, residue, chargeData) ==
    [a \in DOMAIN heap |->
        IF a \in Range(residue.Atoms)
           /\ residue.Name \in DOMAIN chargeData
           /\ heap[a].element \in DOMAIN chargeData[residue.Name]
        THEN [heap[a] EXCEPT !.charge = chargeData[residue.Name][heap[a].element]]
        ELSE heap[a]]

\* the loop body of AssignChargesToProtein for one residue
AssignChargesResidue(heap, residue, chargeData) ==
    LET residueExists == residue.Name \in DOMAIN chargeData
    IN  [a \in DOMAIN heap |->
            IF a \in Range(residue.Atoms)
            THEN LET atomName == heap[a].element
                 IN  IF residueExists /\ atomName \in DOMAIN chargeData[residue.Name]
                     THEN [heap[a] EXCEPT !.charge = chargeData[residue.Name][atomName]]
                     ELSE [heap[a] EXCEPT !.charge = Zero]
            ELSE heap[a]]

RECURSIVE AssignChargesResidues(_, _, _)
AssignChargesResidues(heap, residues, chargeData) ==
    IF residues = <<>> THEN heap
    ELSE AssignChargesResidues(AssignChargesResidue(heap, Head(residues), chargeData),
                               Tail(residues), chargeData)

\* (protein *Protein) AssignChargesToProtein(chargeData): the atom heap after the call
AssignChargesToProtein(heap, protein, chargeData) ==
    AssignChargesResidues(heap, protein.Residue, chargeData)

\* strings.HasPrefix(line, ";")
IsCommentLine(fields) == fields # <<>> /\ Head(fields) = ";"

RECURSIVE ParseParameters(_, _, _, _)
\* the loop over pair.parameter, from i on: the parameters, an error or a panic
ParseParameters(fields, funcPosition, count, i) ==
    IF i >= count THEN [kind |-> "ok", parameter |-> <<>>]
    ELSE IF funcPosition + i + 1 > Len(fields) THEN Panicked
    ELSE IF ParseFloat(fields[funcPosition + i + 1]).err THEN Failed
    ELSE LET rest == ParseParameters(fields, funcPosition, count, i + 1)
         IN  IF rest.kind # "ok" THEN rest
             ELSE [kind |-> "ok",
                   parameter |-> <<ParseFloat(fields[funcPosition + i + 1]).value>>
                                     \o rest.parameter]

\* returns the pair, or an error; the atom names are fields[:funcPosition-1], the
\* function is fields[funcPosition-1], the parameters follow from fields[funcPosition]
ParseParameterPairLine(fields, funcPosition, length) ==
    IF fields = <<>> \/ IsCommentLine(fields) THEN Failed
    ELSE IF funcPosition - 1 < 0 \/ funcPosition - 1 > Len(fields) THEN Panicked
    ELSE IF length - funcPosition - 1 < 0 THEN Panicked
    ELSE IF funcPosition > Len(fields) THEN Panicked
    ELSE IF Atoi(fields[funcPosition]).err THEN Failed
    ELSE LET p == ParseParameters(fields, funcPosition, length - funcPosition - 1, 0)
         IN  IF p.kind # "ok" THEN p
             ELSE [kind |-> "ok",
                   pair |-> ParameterPair(SubSeq(fields, 1, funcPosition - 1),
                                          Atoi(fields[funcPosition]).value, p.parameter)]

\* the place of "func" among the fields of a comment line and their number, or -1, 0
FindPosition(fields) ==
    IF ~IsCommentLine(fields) THEN [funcPosition |-> -1, length |-> 0]
    ELSE IF \E i \in DOMAIN fields : fields[i] = "func"
    THEN [funcPosition |-> (CHOOSE i \in DOMAIN fields :
                                /\ fields[i] = "func"
                                /\ \A j \in 1..(i - 1) : fields[j] # "func") - 1,
          length |-> Len(fields)]
    ELSE [funcPosition |-> -1, length |-> 0]

\* the first line of the file, "" for a file without lines
GetFirstLine(lines) == IF lines = <<>> THEN <<>> ELSE Head(lines)

RECURSIVE ScanParameters(_, _, _, _)
\* the scanner loop of ReadParameterFile: a line with an error is passed over
ScanParameters(lines, funcPosition, length, pairs) ==
    IF lines = <<>> THEN [kind |-> "ok", atomPair |-> pairs]
    ELSE LET r == ParseParameterPairLine(Head(lines), funcPosition, length)
         IN  IF r.kind = "panic" THEN Panicked
             ELSE IF r.kind = "err"
             THEN ScanParameters(Tail(lines), funcPosition, length, pairs)
             ELSE ScanParameters(Tail(lines), funcPosition, length, Append(pairs, r.pair))

\* returns the parameterDatabase; the errors of GetFirstLine and FindPosition are dropped
ReadParameterFile(lines) ==
    LET position == FindPosition(GetFirstLine(lines))
    IN  ScanParameters(lines, position.funcPosition, position.length, <<>>)

MaxFileLines == 2   \* lines of a structure file, lines after the first of a parameter file

\* lines of a structure file: three well-formed atoms in two residues, a
\* coordinate and an index that are no numbers, a line that ends early, a remark
PDBLines ==
    {<<"ATOM", "1", "N", "ALA", "A", "1", "0", "0", "0">>,
     <<"ATOM", "2", "CA", "ALA", "A", "1", "1.5", "0", "0">>,
     <<"ATOM", "5", "X", "GLY", "A", "2", "0", "2", "0">>,
     <<"ATOM", "3", "C", "ALA", "A", "1", "x1", "0", "0">>,
     <<"ATOM", "1x", "O", "GLY", "A", "2", "0", "0", "1">>,
     <<"ATOM", "4", "C", "ALA", "A", "1", "0">>,
     <<"REMARK", "1">>}

SeqsUpTo(S, n) == UNION {[1..k -> S] : k \in 0..n}

PDBFiles == SeqsUpTo(PDBLines, MaxFileLines)

HeaderLine == <<";", "i", "j", "func", "b0", "kb">>

\* lines of a parameter table: the header, two well-formed lines, a parameter
\* and a function type that are no numbers, a line that ends early, a comment,
\* an empty line
ParameterLines ==
    {HeaderLine,
     <<"C", "N", "1", "1.5", "2">>,
     <<"N", "N", "2", "1", "2">>,
     <<"C", "C", "1", "x1", "2">>,
     <<"C", "O", "2.5", "1", "2">>,
     <<"C", "N", "1", "1.5">>,
     <<";", "note">>,
     <<>>}

ParameterFiles == SeqsUpTo(ParameterLines, MaxFileLines + 1)

\* charge tables: residue name -> atom label -> charge
ChargeTables ==
    {[r \in {"ALA"} |-> [l \in {"N", "CA"} |-> IF l = "N" THEN Norm(-1, 2) ELSE Norm(1, 10)]],
     [r \in {"ALA", "GLY"} |-> IF r = "ALA" THEN [l \in {"N"} |-> R(1)]
                                            ELSE [l \in {"X"} |-> R(2)]],
     [r \in {} |-> <<>>]}

InitIO ==
    /\ atoms = <<>>
    /\ proteins = <<>>
    /\ verletCutOff = Zero
    /\ verletBuffer = Zero
    /\ v = NewVerletList
    /\ lastBuilt = 0
    /\ prevBuilt = 0
    /\ fcall = NoCall
    /\ fret = NoCall

\* main reads the parameter table, then the structure, then assigns the charges
ReadParameterFileCall(lines) ==
    /\ proteins = <<>>
    /\ fcall' = [op |-> "ReadParameterFile", lines |-> lines]
    /\ fret' = ReadParameterFile(lines)
    /\ UNCHANGED <<atoms, proteins, v, lastBuilt, prevBuilt, verletCutOff, verletBuffer>>

readProteinFromFileCall(lines) ==
    /\ proteins = <<>>
    /\ LET r == readProteinFromFile(atoms, proteins, lines)
       IN  /\ atoms' = r.atoms
           /\ proteins' = r.proteins
           /\ fret' = [kind |-> r.kind, protein |-> r.ptr]
    /\ fcall' = [op |-> "readProteinFromFile", lines |-> lines]
    /\ UNCHANGED <<v, lastBuilt, prevBuilt, verletCutOff, verletBuffer>>

AssignChargesToProteinCall(p, chargeData) ==
    /\ atoms' = AssignChargesToProtein(atoms, proteins[p], chargeData)
    /\ fcall' = [op |-> "AssignChargesToProtein", p |-> p, chargeData |-> chargeData]
    /\ fret' = [kind |-> "ok"]
    /\ UNCHANGED <<proteins, v, lastBuilt, prevBuilt, verletCutOff, verletBuffer>>

NextIO ==
    \/ \E lines \in ParameterFiles : ReadParameterFileCall(lines)
    \/ \E lines \in PDBFiles : readProteinFromFileCall(lines)
    \/ \E p \in DOMAIN proteins, chargeData \in ChargeTables :
          AssignChargesToProteinCall(p, chargeData)

SpecIO == InitIO /\ [][NextIO]_vars

-----------------------------------------------------------------------------
(* Properties of the neighbor list *)

Built == lastBuilt # 0

BuiltAtoms == Range(AtomsOf(proteins[lastBuilt]))

IsNeighbor(a, b) == b \in Range(v.Neighbors[a])

Occurrences(a, b) == Cardinality({i \in DOMAIN v.Neighbors[a] : v.Neighbors[a][i] = b})

IndexGap(a, b) == Abs(atoms[a].index - atoms[b].index)

\* squared Euclidean distance of two atoms at integer positions
Dist2(a, b) ==
    LET p == atoms[a].position
        q == atoms[b].position
    IN  (p.x[1] - q.x[1]) * (p.x[1] - q.x[1]) + (p.y[1] - q.y[1]) * (p.y[1] - q.y[1])
          + (p.z[1] - q.z[1]) * (p.z[1] - q.z[1])

\* distance(a, b) <= reach, for an integer reach
Within(a, b, reach) == reach >= 0 /\ Dist2(a, b) <= reach * reach

\* C3: after BuildVerlet no neighbor list holds an atom whose index differs from
\* the list owner's by 3 or less, whatever their distance and residues.
C3_IndexExclusion ==
    Built => \A a \in DOMAIN v.Neighbors : \A b \in Range(v.Neighbors[a]) : IndexGap(a, b) > 3

\* atoms 2 and 3 (different residues) and atoms 1 and 2 (same residue) are within
\* reach and index-excluded, while atom 1 has a neighbor
C3_Witness ==
    /\ lastBuilt = 1
    /\ IndexGap(2, 3) <= 3 /\ Within(2, 3, v.Cutoff[1] + v.Buffer[1])
    /\ IndexGap(1, 2) <= 3 /\ Within(1, 2, v.Cutoff[1] + v.Buffer[1])
    /\ v.Neighbors[1] # <<>>

\* C4: after BuildVerlet, for distinct atoms whose indices differ by more than 3,
\* the second is in the first's list iff their distance is <= Cutoff + Buffer
\* (boundary included), and then exactly once.
C4_DistanceRule ==
    Built => \A a \in BuiltAtoms : \A b \in BuiltAtoms \ {a} :
                IndexGap(a, b) > 3 =>
                    Occurrences(a, b) =
                        (IF Within(a, b, v.Cutoff[1] + v.Buffer[1]) THEN 1 ELSE 0)

\* a pair exactly at distance Cutoff + Buffer > 0 is recorded, another pair is too far
C4_Witness ==
    /\ lastBuilt = 1
    /\ IndexGap(1, 3) > 3 /\ IndexGap(1, 2) > 3
    /\ Dist2(1, 3) = (v.Cutoff[1] + v.Buffer[1]) * (v.Cutoff[1] + v.Buffer[1])
    /\ Dist2(1, 3) > 0
    /\ IsNeighbor(1, 3)
    /\ ~Within(1, 2, v.Cutoff[1] + v.Buffer[1]) /\ ~IsNeighbor(1, 2)

\* C5 as claimed: with Cutoff = 0 every neighbor list is empty, whatever Buffer is.
C5_Claimed_EmptyAtZeroCutoff ==
    (Built /\ v.Cutoff = Zero) => \A a \in DOMAIN v.Neighbors : v.Neighbors[a] = <<>>

\* C5 amended: with Cutoff = 0 the list of an atom holds exactly the other atoms
\* whose index differs by more than 3 and that lie within Buffer of it.
C5_ZeroCutoffUsesBuffer ==
    (Built /\ v.Cutoff = Zero) =>
        \A a \in BuiltAtoms :
            Range(v.Neighbors[a]) =
                {b \in BuiltAtoms \ {a} : IndexGap(a, b) > 3 /\ Within(a, b, v.Buffer[1])}

\* Cutoff = 0, Buffer > 0 and an atom at a positive distance within Buffer is listed
C5_Witness ==
    /\ Built /\ v.Cutoff = Zero /\ v.Buffer # Zero
    /\ \E a \in BuiltAtoms : \E b \in Range(v.Neighbors[a]) : Dist2(a, b) > 0

\* C6: after BuildVerlet no atom is in its own neighbor list.
C6_NoSelfNeighbor ==
    Built => \A a \in DOMAIN v.Neighbors : ~IsNeighbor(a, a)

\* a protein was built with a reach that covers distance 0 and some list is not empty
C6_Witness ==
    /\ lastBuilt = 1
    /\ Within(1, 1, v.Cutoff[1] + v.Buffer[1])
    /\ v.Neighbors[1] # <<>>

\* C7: after BuildVerlet the neighbor relation is symmetric.
C7_Symmetric ==
    Built => \A a \in DOMAIN v.Neighbors : \A b \in DOMAIN v.Neighbors :
                IsNeighbor(a, b) <=> IsNeighbor(b, a)

\* atom 3 is listed for atom 1 and atom 1 for atom 3, atom 2 for neither
C7_Witness ==
    /\ lastBuilt = 1
    /\ IsNeighbor(1, 3) /\ IsNeighbor(3, 1)
    /\ ~IsNeighbor(1, 2) /\ ~IsNeighbor(2, 1)

\* C8: after any sequence of BuildVerlet calls the keys of the map are exactly the
\* atoms of the protein of the last call, every entry names atoms of that protein
\* only, and Cutoff and Buffer are the values the list was created with.
C8_RebuiltFromScratch ==
    Built =>
        /\ DOMAIN v.Neighbors = BuiltAtoms
        /\ \A a \in DOMAIN v.Neighbors : Range(v.Neighbors[a]) \subseteq BuiltAtoms
        /\ v.Cutoff = verletCutOff
        /\ v.Buffer = verletBuffer

\* the list was built for protein 2, whose atoms are neighbors, and then for protein 1
C8_Witness ==
    /\ prevBuilt = 2 /\ lastBuilt = 1
    /\ IndexGap(4, 5) > 3 /\ Within(4, 5, v.Cutoff[1] + v.Buffer[1])
    /\ v.Neighbors[1] # <<>>

-----------------------------------------------------------------------------
(* Properties of the force routines *)

VecFinite(t) == IsFinite(t.x) /\ IsFinite(t.y) /\ IsFinite(t.z)

\* C1: for three atoms at pairwise distinct positions the three forces of
\* CalculateAngleForce are well-defined numbers and add up to the zero vector,
\* force_j being the negated sum of force_i and force_k.
C1_Claimed_AngleForcesSumToZero ==
    Returned("CalculateAngleForce") =>
        /\ \A i \in 1..3 : VecFinite(fret[i])
        /\ VecAdd(VecAdd(fret[1], fret[2]), fret[3]) = ZeroVec
        /\ fret[2] = TriTuple(Neg(Add(fret[1].x, fret[3].x)), Neg(Add(fret[1].y, fret[3].y)),
                              Neg(Add(fret[1].z, fret[3].z)))

\* C2: the four forces of CalculateProperDihedralsForce add up to the zero vector.
C2_Claimed_DihedralForcesSumToZero ==
    Returned("CalculateProperDihedralsForce") =>
        VecAdd(VecAdd(VecAdd(fret[1], fret[2]), fret[3]), fret[4]) = ZeroVec

\* q1*q2 / (4*pi*epsilon*r^2)
CoulombScalar(a1, a2, r) ==
    Div(Mul(a1.charge, a2.charge), Mul(Mul(Mul(Mul(R(4), Pi), epsilon), r), r))

\* C10: the force of CalculateElectricForce on atom1 is q1*q2/(4*pi*epsilon*r^2)
\* times the unit displacement from atom1 to atom2, a scalar that is positive for
\* like charges and negative for opposite charges.
C10_Claimed_CoulombForceSigned ==
    Returned("CalculateElectricForce") =>
        LET scalar == CoulombScalar(fcall.a1, fcall.a2, fcall.r)
            d == CalculateVector(fcall.a1, fcall.a2)
        IN  /\ fret = TriTuple(Mul(scalar, Div(d.x, fcall.r)), Mul(scalar, Div(d.y, fcall.r)),
                               Mul(scalar, Div(d.z, fcall.r)))
            /\ Lt(Zero, Mul(fcall.a1.charge, fcall.a2.charge)) => Lt(Zero, scalar)
            /\ Lt(Mul(fcall.a1.charge, fcall.a2.charge), Zero) => Lt(scalar, Zero)

-----------------------------------------------------------------------------
(* Properties of the non-bonded pass *)

PassedProtein == proteins[fcall.p]

PassedAtoms == Range(AtomsOf(PassedProtein))

\* the neighbor lists the pass works from
PassNeighbors == BuildVerlet(NewVerletList, PassedProtein).Neighbors

HasLJ(a, b) == Len(SearchParameter(2, NonbondedDatabase, atoms[a], atoms[b])) = 2

HasCoulomb(a, b) == atoms[a].charge # Zero /\ atoms[b].charge # Zero

\* the Lennard-Jones plus Coulomb force of atom a with its neighbor b
PairForce(a, b) ==
    LET r == Distance(atoms[a].position, atoms[b].position)
        pl == SearchParameter(2, NonbondedDatabase, atoms[a], atoms[b])
        lj == IF HasLJ(a, b) THEN CalculateLJForce(atoms[a], atoms[b], pl[1], pl[2], r)
              ELSE ZeroVec
        el == IF HasCoulomb(a, b) THEN CalculateElectricForce(atoms[a], atoms[b], r)
              ELSE ZeroVec
    IN  VecAdd(lj, el)

RECURSIVE SumPairForces(_, _)
SumPairForces(a, neighbors) ==
    IF neighbors = <<>> THEN ZeroVec
    ELSE VecAdd(PairForce(a, Head(neighbors)), SumPairForces(a, Tail(neighbors)))

DistinctIndices(S) == \A a \in S : \A b \in S : atoms[a].index = atoms[b].index => a = b

\* C9 as claimed: for every atom of p the force map has an entry under the atom's
\* index that equals the sum of its pair forces over its Verlet neighbors.
C9_Claimed_EntryIsNeighborSum ==
    Returned("CalculateTotalUnbondedEnergyForce") =>
        \A a \in PassedAtoms :
            /\ atoms[a].index \in DOMAIN fret.forceMap
            /\ fret.forceMap[atoms[a].index] = SumPairForces(a, PassNeighbors[a])

\* C9 amended: the same, for a protein whose atoms have pairwise distinct indices;
\* the map then has exactly one entry per atom.
C9_EntryIsNeighborSum ==
    (Returned("CalculateTotalUnbondedEnergyForce") /\ DistinctIndices(PassedAtoms)) =>
        /\ DOMAIN fret.forceMap = {atoms[a].index : a \in PassedAtoms}
        /\ \A a \in PassedAtoms :
              fret.forceMap[atoms[a].index] = SumPairForces(a, PassNeighbors[a])

\* atom 3 has two neighbors, one contributing both forces and one only a Coulomb
\* force, and its entry is not zero
C9_Witness ==
    /\ Returned("CalculateTotalUnbondedEnergyForce") /\ fcall.p = 1
    /\ DistinctIndices(PassedAtoms)
    /\ Len(PassNeighbors[3]) = 2
    /\ \E b \in Range(PassNeighbors[3]) : HasLJ(3, b) /\ HasCoulomb(3, b)
    /\ \E b \in Range(PassNeighbors[3]) : ~HasLJ(3, b) /\ HasCoulomb(3, b)
    /\ fret.forceMap[atoms[3].index] # ZeroVec

\* the part of kind "LJ" or "Coulomb" of the energy and of the force of atom a with
\* its neighbor b: nothing when the lookup has no two coefficients, resp. when one
\* of the two charges is 0
PairEnergyPart(kind, a, b) ==
    LET r == Distance(atoms[a].position, atoms[b].position)
        pl == SearchParameter(2, NonbondedDatabase, atoms[a], atoms[b])
    IN  IF kind = "LJ"
        THEN IF HasLJ(a, b) THEN CalculateLJPotentialEnergy(pl[1], pl[2], r) ELSE Zero
        ELSE IF HasCoulomb(a, b) THEN CalculateElectricPotentialEnergy(atoms[a], atoms[b], r)
             ELSE Zero

PairForcePart(kind, a, b) ==
    LET r == Distance(atoms[a].position, atoms[b].position)
        pl == SearchParameter(2, NonbondedDatabase, atoms[a], atoms[b])
    IN  IF kind = "LJ"
        THEN IF HasLJ(a, b) THEN CalculateLJForce(atoms[a], atoms[b], pl[1], pl[2], r)
             ELSE ZeroVec
        ELSE IF HasCoulomb(a, b) THEN CalculateElectricForce(atoms[a], atoms[b], r)
             ELSE ZeroVec

RECURSIVE NeighborEnergyPart(_, _, _)
NeighborEnergyPart(kind, a, neighbors) ==
    IF neighbors = <<>> THEN Zero
    ELSE Add(PairEnergyPart(kind, a, Head(neighbors)),
             NeighborEnergyPart(kind, a, Tail(neighbors)))

RECURSIVE NeighborForcePart(_, _, _)
NeighborForcePart(kind, a, neighbors) ==
    IF neighbors = <<>> THEN ZeroVec
    ELSE VecAdd(PairForcePart(kind, a, Head(neighbors)),
                NeighborForcePart(kind, a, Tail(neighbors)))

RECURSIVE EnergyPart(_, _)
EnergyPart(kind, rest) ==
    IF rest = <<>> THEN Zero
    ELSE Add(NeighborEnergyPart(kind, Head(rest), PassNeighbors[Head(rest)]),
             EnergyPart(kind, Tail(rest)))

\* a later atom of the pass has the same index as a
Shadowed(a) ==
    LET s == AtomsOf(PassedProtein)
    IN  \E i \in DOMAIN s : \E j \in DOMAIN s :
            i < j /\ s[i] = a /\ atoms[s[j]].index = atoms[a].index

\* the ordered neighbor pairs of the pass
PassPairs == {<<a, b>> \in PassedAtoms \X PassedAtoms : b \in Range(PassNeighbors[a])}

\* C11: the pass runs to its end for every protein and database; its energy is the
\* Lennard-Jones energy of the neighbor pairs with a two-coefficient match plus the
\* Coulomb energy of the neighbor pairs with two non-zero charges, and an atom's
\* entry is made of the forces of the same pairs: a pair without a match adds no
\* Lennard-Jones term, a pair with a zero charge adds no Coulomb term, and neither
\* skip removes the other term.
C11_SkipsAreIndependent ==
    Returned("CalculateTotalUnbondedEnergyForce") =>
        /\ DOMAIN fret.forceMap = {atoms[a].index : a \in PassedAtoms}
        /\ fret.totalEnergy = Add(EnergyPart("LJ", AtomsOf(PassedProtein)),
                                  EnergyPart("Coulomb", AtomsOf(PassedProtein)))
        /\ \A a \in PassedAtoms :
              ~Shadowed(a) =>
                  fret.forceMap[atoms[a].index] =
                      VecAdd(NeighborForcePart("LJ", a, PassNeighbors[a]),
                             NeighborForcePart("Coulomb", a, PassNeighbors[a]))

\* the pass met a pair with a match and a zero charge, a pair with two charges and
\* no match, and a pair with two charges and a three-coefficient entry or a pair
\* with neither
C11_Witness ==
    /\ Returned("CalculateTotalUnbondedEnergyForce") /\ fcall.p = 1
    /\ \E pr \in PassPairs : HasLJ(pr[1], pr[2]) /\ ~HasCoulomb(pr[1], pr[2])
    /\ \E pr \in PassPairs :
          /\ ~HasLJ(pr[1], pr[2]) /\ HasCoulomb(pr[1], pr[2])
          /\ SearchParameter(2, NonbondedDatabase, atoms[pr[1]], atoms[pr[2]]) = <<>>
    /\ \E pr \in PassPairs :
          \/ Len(SearchParameter(2, NonbondedDatabase, atoms[pr[1]], atoms[pr[2]])) = 3
          \/ ~HasLJ(pr[1], pr[2]) /\ ~HasCoulomb(pr[1], pr[2])
    /\ fret.totalEnergy # Zero

\* magnitude of a float64
AbsR(a) == IF Lt(a, Zero) THEN Neg(a) ELSE a

\* |A/r^12 - B/r^6| when the lookup gives the coefficients <<B, A>>, plus
\* |q1*q2|/(4*pi*epsilon*r) when both charges are non-zero
PairEnergyMagnitude(a, b) ==
    LET r == Distance(atoms[a].position, atoms[b].position)
        pl == SearchParameter(2, NonbondedDatabase, atoms[a], atoms[b])
        r6 == Pow6(r)
        lj == IF Len(pl) = 2
              THEN AbsR(Sub(Div(pl[2], Mul(r6, r6)), Div(pl[1], r6)))
              ELSE Zero
        el == IF atoms[a].charge # Zero /\ atoms[b].charge # Zero
              THEN Div(AbsR(Mul(atoms[a].charge, atoms[b].charge)),
                       Mul(Mul(Mul(R(4), Pi), epsilon), r))
              ELSE Zero
    IN  Add(lj, el)

RECURSIVE NeighborEnergyMagnitude(_, _)
NeighborEnergyMagnitude(a, neighbors) ==
    IF neighbors = <<>> THEN Zero
    ELSE Add(PairEnergyMagnitude(a, Head(neighbors)),
             NeighborEnergyMagnitude(a, Tail(neighbors)))

RECURSIVE EnergyMagnitude(_)
EnergyMagnitude(rest) ==
    IF rest = <<>> THEN Zero
    ELSE Add(NeighborEnergyMagnitude(Head(rest), PassNeighbors[Head(rest)]),
             EnergyMagnitude(Tail(rest)))

\* C12: the total energy of the pass is the sum over every atom and each of its
\* Verlet neighbors of |A/r^12 - B/r^6| (with a match) and |q1*q2|/(4*pi*epsilon*r)
\* (with two non-zero charges), and it is not negative.
C12_EnergyIsSumOfMagnitudes ==
    Returned("CalculateTotalUnbondedEnergyForce") =>
        /\ fret.totalEnergy = EnergyMagnitude(AtomsOf(PassedProtein))
        /\ Le(Zero, fret.totalEnergy)

\* a pass with a pair whose A/r^12 - B/r^6 is negative and a pair of opposite
\* charges
C12_Witness ==
    /\ Returned("CalculateTotalUnbondedEnergyForce") /\ fcall.p = 1
    /\ \E pr \in PassPairs :
          LET r6 == Pow6(Distance(atoms[pr[1]].position, atoms[pr[2]].position))
              pl == SearchParameter(2, NonbondedDatabase, atoms[pr[1]], atoms[pr[2]])
          IN  Len(pl) = 2 /\ Lt(Sub(Div(pl[2], Mul(r6, r6)), Div(pl[1], r6)), Zero)
    /\ \E pr \in PassPairs :
          Lt(Mul(atoms[pr[1]].charge, atoms[pr[2]].charge), Zero)
    /\ Lt(Zero, fret.totalEnergy)

\* v scaled by the float64 c
Scale(c, t) == TriTuple(Mul(c, t.x), Mul(c, t.y), Mul(c, t.z))

\* the displacement from atom a to atom b divided by their distance
UnitDisplacement(a, b) ==
    LET r == Distance(atoms[a].position, atoms[b].position)
        d == CalculateVector(atoms[a], atoms[b])
    IN  TriTuple(Div(d.x, r), Div(d.y, r), Div(d.z, r))

\* ((-12*A/r^12 + 6*B/r^6)/r) * unit displacement, for the coefficients A of the
\* r^-12 term and B of the r^-6 term
LJForceFormula(A, B, a, b) ==
    LET r == Distance(atoms[a].position, atoms[b].position)
        r6 == Pow6(r)
    IN  Scale(Div(Add(Div(Mul(R(-12), A), Mul(r6, r6)), Div(Mul(R(6), B), r6)), r),
              UnitDisplacement(a, b))

\* |A/r^12 - B/r^6|
LJEnergyFormula(A, B, a, b) ==
    LET r6 == Pow6(Distance(atoms[a].position, atoms[b].position))
    IN  AbsR(Sub(Div(A, Mul(r6, r6)), Div(B, r6)))

\* the sums over the neighbors of a, the looked-up coefficients <<c1, c2>> being
\* bound as B = c1 and A = c2
RECURSIVE LJForceSum(_, _)
LJForceSum(a, neighbors) ==
    IF neighbors = <<>> THEN ZeroVec
    ELSE LET b == Head(neighbors)
             pl == SearchParameter(2, NonbondedDatabase, atoms[a], atoms[b])
         IN  VecAdd(IF Len(pl) = 2 THEN LJForceFormula(pl[2], pl[1], a, b) ELSE ZeroVec,
                    LJForceSum(a, Tail(neighbors)))

RECURSIVE LJEnergySum(_, _)
LJEnergySum(a, neighbors) ==
    IF neighbors = <<>> THEN Zero
    ELSE LET b == Head(neighbors)
             pl == SearchParameter(2, NonbondedDatabase, atoms[a], atoms[b])
         IN  Add(IF Len(pl) = 2 THEN LJEnergyFormula(pl[2], pl[1], a, b) ELSE Zero,
                 LJEnergySum(a, Tail(neighbors)))

RECURSIVE LJEnergyTotal(_)
LJEnergyTotal(rest) ==
    IF rest = <<>> THEN Zero
    ELSE Add(LJEnergySum(Head(rest), PassNeighbors[Head(rest)]), LJEnergyTotal(Tail(rest)))

\* C13: the Lennard-Jones force the pass adds to atom1's entry for a neighbor with
\* a two-coefficient match is ((-12*A/r^12 + 6*B/r^6)/r) times the unit displacement
\* from atom1 to atom2, and the energy of the pass is |A/r^12 - B/r^6| for the same
\* A and B: both calls take the first looked-up coefficient as B and the second as A.
C13_LJForceAndBinding ==
    Returned("CalculateTotalUnbondedEnergyForce") =>
        /\ \A a \in PassedAtoms :
              ~Shadowed(a) =>
                  fret.forceMap[atoms[a].index] =
                      VecAdd(LJForceSum(a, PassNeighbors[a]),
                             NeighborForcePart("Coulomb", a, PassNeighbors[a]))
        /\ fret.totalEnergy = Add(LJEnergyTotal(AtomsOf(PassedProtein)),
                                  EnergyPart("Coulomb", AtomsOf(PassedProtein)))

\* an atom whose entry holds the Lennard-Jones force of a neighbor with two
\* different coefficients, at distance 1 or 2
C13_Witness ==
    /\ Returned("CalculateTotalUnbondedEnergyForce") /\ fcall.p = 1
    /\ \E pr \in PassPairs :
          LET pl == SearchParameter(2, NonbondedDatabase, atoms[pr[1]], atoms[pr[2]])
          IN  /\ ~Shadowed(pr[1])
              /\ Len(pl) = 2 /\ pl[1] # pl[2]
              /\ LJForceFormula(pl[2], pl[1], pr[1], pr[2]) # ZeroVec
              /\ LJForceFormula(pl[2], pl[1], pr[1], pr[2])
                     # LJForceFormula(pl[1], pl[2], pr[1], pr[2])
              /\ fret.forceMap[atoms[pr[1]].index] # ZeroVec

-----------------------------------------------------------------------------
(* Properties of the bond routines and of the plane normal *)

\* C18: for two atoms at distinct positions and r their distance, CalculateBondForce
\* returns one vector, -k*(r - r0) times the unit displacement from atom1 to atom2:
\* its magnitude is |k*(r - r0)|, it points away from atom2 when r > r0, toward atom2
\* when r < r0, is the zero vector when r = r0, and the call with the two atoms
\* swapped returns its negation.
C18_BondForce ==
    Returned("CalculateBondForce") =>
        LET d == CalculateVector(fcall.atom1, fcall.atom2)
            unit == TriTuple(Div(d.x, fcall.r), Div(d.y, fcall.r), Div(d.z, fcall.r))
            stretch == Mul(fcall.k, Sub(fcall.r, fcall.r_0))
            swapped == CalculateBondForce(fcall.k, fcall.r, fcall.r_0, fcall.atom2, fcall.atom1)
        IN  /\ fret = Scale(Neg(stretch), unit)
            /\ magnitude(fret) = AbsR(stretch)
            /\ Lt(fcall.r_0, fcall.r) => Lt(dot(fret, d), Zero)
            /\ Lt(fcall.r, fcall.r_0) => Lt(Zero, dot(fret, d))
            /\ fcall.r = fcall.r_0 => fret = ZeroVec
            /\ swapped = Scale(R(-1), fret)

\* k = 100, r = 1.5, r0 = 1.0: magnitude 50, directed away from atom2
C18_Witness ==
    /\ Returned("CalculateBondForce")
    /\ fcall.k = R(100) /\ fcall.r = Norm(3, 2) /\ fcall.r_0 = R(1)
    /\ fcall.atom1.position = ZeroVec
    /\ fret = Vec(-50, 0, 0)
    /\ magnitude(fret) = R(50)

\* the shifts applied to r and r0 together
LengthShifts == {R(-2), Norm(1, 2), R(3)}

\* C19: for k > 0, CalculateBondStretchEnergy(k, r, r0) is 0.5*k*(r - r0)^2, is not
\* negative, is 0 exactly when r = r0, and is the same for every r, r0 with the same
\* difference.
C19_BondStretchEnergy ==
    (Returned("CalculateBondStretchEnergy") /\ Lt(Zero, fcall.k)) =>
        LET diff == Sub(fcall.r, fcall.r_0)
        IN  /\ fret = Mul(Mul(Norm(1, 2), fcall.k), Mul(diff, diff))
            /\ Le(Zero, fret)
            /\ fret = Zero <=> fcall.r = fcall.r_0
            /\ \A t \in LengthShifts :
                  CalculateBondStretchEnergy(fcall.k, Add(fcall.r, t), Add(fcall.r_0, t)) = fret
            /\ CalculateBondStretchEnergy(fcall.k, diff, Zero) = fret

\* k = 100, r = 1.5, r0 = 1.0 gives 12.5
C19_Witness ==
    /\ Returned("CalculateBondStretchEnergy")
    /\ fcall.k = R(100) /\ fcall.r = Norm(3, 2) /\ fcall.r_0 = R(1)
    /\ fret = Norm(25, 2)

\* C20: BuildNormalVector(v, v) is the zero vector, and BuildNormalVector(v1, v2) has
\* dot product 0 with v1 and with v2.
C20_NormalVector ==
    Returned("BuildNormalVector") =>
        /\ fcall.vector1 = fcall.vector2 => fret = ZeroVec
        /\ dot(fret, fcall.vector1) = Zero
        /\ dot(fret, fcall.vector2) = Zero

\* a non-zero normal of two different vectors with fractional components
C20_Witness ==
    /\ Returned("BuildNormalVector")
    /\ fcall.vector1 = TriTuple(Norm(1, 2), Norm(-3, 4), R(5))
    /\ fcall.vector2 = Vec(1, 2, 0)
    /\ fret # ZeroVec

-----------------------------------------------------------------------------
(* Properties of the minimizer *)

\* the atoms of a protein, as values, in residue and atom order
StructureIn(atomHeap, proteinHeap, ptr) ==
    [k \in DOMAIN AtomsOf(proteinHeap[ptr]) |-> atomHeap[AtomsOf(proteinHeap[ptr])[k]]]

\* a step of the loop body
IterationDone ==
    /\ fcall.op = "PerformEnergyMinimization"
    /\ fcall'.op = "PerformEnergyMinimization"
    /\ fcall'.i = fcall.i + 1

\* C14: in every iteration, if the trial's total energy is strictly lower than the
\* current structure's, the trial becomes the current structure and h is multiplied
\* by 1.2; otherwise the current structure stays as it is and h becomes 0.2*h*h; the
\* energy of the current structure never increases from one iteration to the next.
C14_AcceptOrShrink ==
    [][IterationDone =>
        LET cur == fcall.currentProtein
            trial == fcall'.tempProtein
            e0 == CalculateTotalEnergy(proteins[cur])
            e1 == CalculateTotalEnergy(proteins'[trial])
        IN  /\ fcall'.initialEnergy = e0
            /\ fcall'.updatedEnergy = e1
            /\ IF Lt(e1, e0)
               THEN /\ fcall'.currentProtein = trial
                    /\ fcall'.h = HMul(H(1, 1, -1), fcall.h)
               ELSE /\ fcall'.currentProtein = cur
                    /\ StructureIn(atoms', proteins', cur) = StructureIn(atoms, proteins, cur)
                    /\ fcall'.h = HMul(HMul(H(0, 0, -1), fcall.h), fcall.h)
            /\ ~Lt(e0, CalculateTotalEnergy(proteins'[fcall'.currentProtein]))
      ]_vars

\* after two iterations on a protein with atoms: both trials were not lower, the
\* second one moved the atoms of the snapshot, the current structure is the one
\* given, and h is 0.2 * (0.2 * 0.01^2)^2 = 2^-8 * 5^-11
C14_Witness ==
    /\ fcall.op = "PerformEnergyMinimization" /\ fcall.p = 1 /\ fcall.i = 2
    /\ ~Lt(fcall.updatedEnergy, fcall.initialEnergy)
    /\ fcall.currentProtein = fcall.p
    /\ fcall.tempProtein # fcall.currentProtein
    /\ \E k \in DOMAIN AtomsOf(proteins[fcall.p]) :
          StructureIn(atoms, proteins, fcall.tempProtein)[k].position
              # StructureIn(atoms, proteins, fcall.p)[k].position
    /\ fcall.h = H(-8, 0, -11)

\* C15: PerformEnergyMinimization starts with h = 0.01, runs the loop body exactly
\* 100 times for any protein, one with no residues included, and then returns: it
\* returns only after the 100th iteration, runs no iteration after it, and every
\* call returns.
C15_HundredIterations ==
    /\ [](fcall.op = "PerformEnergyMinimization" =>
            /\ fcall.i \in 0..100
            /\ fcall.i = 0 => HValue(fcall.h) = Norm(1, 100)
            /\ fret # NoCall => fcall.i = 100)
    /\ [][fcall.op = "PerformEnergyMinimization" =>
            \/ fcall'.i = fcall.i + 1 /\ fcall.i < 100 /\ fret' = NoCall
            \/ fcall'.i = fcall.i /\ fcall.i = 100 /\ fret = NoCall /\ fret' # NoCall]_vars
    /\ (fcall.op = "PerformEnergyMinimization")
          ~> (fcall.op = "PerformEnergyMinimization" /\ fret # NoCall /\ fcall.i = 100)

\* the call on the protein without residues has returned after 100 iterations
C15_Witness ==
    /\ Returned("PerformEnergyMinimization")
    /\ proteins[fcall.p].Residue = <<>>
    /\ fcall.i = 100
    /\ fret.protein = fcall.p

\* some component of f and g has different signs
OppositeSomewhere(f, g) ==
    \/ Sgn(f.x[1]) # Sgn(g.x[1])
    \/ Sgn(f.y[1]) # Sgn(g.y[1])
    \/ Sgn(f.z[1]) # Sgn(g.z[1])

\* C16 as claimed, for a protein without bonded terms: when SteepestDescent moves a
\* protein with a step h > 0, two atoms whose non-bonded forces in that protein point
\* in different directions are not displaced by the same vector.
C16_Claimed_MovedAlongNetForce ==
    [][(fcall.op = "none" /\ fcall'.op = "SteepestDescent" /\ HValue(fcall'.h) # Zero) =>
        LET moved == Range(AtomsOf(proteins[fcall'.p]))
            forceMap == CalculateTotalUnbondedEnergyForce(proteins[fcall'.p],
                                                          NonbondedDatabase).forceMap
            Displacement(a) == TriTuple(Sub(atoms'[a].position.x, atoms[a].position.x),
                                        Sub(atoms'[a].position.y, atoms[a].position.y),
                                        Sub(atoms'[a].position.z, atoms[a].position.z))
        IN  DistinctIndices(moved) =>
                \A a \in moved : \A b \in moved :
                    (/\ VecFinite(forceMap[atoms[a].index])
                     /\ VecFinite(forceMap[atoms[b].index])
                     /\ OppositeSomewhere(forceMap[atoms[a].index], forceMap[atoms[b].index]))
                        => Displacement(a) # Displacement(b)
      ]_vars

\* C17 as claimed: the protein CopyProtein returns is a new object with as many
\* residues and atoms as the original, and each of its atoms equals the original's
\* atom at the same place in every field.
C17_Claimed_CopyEqualsOriginal ==
    Returned("CopyProtein") =>
        LET orig == proteins[fcall.p]
            copy == proteins[fret.protein]
        IN  /\ fret.protein # fcall.p
            /\ Len(copy.Residue) = Len(orig.Residue)
            /\ \A r \in DOMAIN orig.Residue :
                  /\ Len(copy.Residue[r].Atoms) = Len(orig.Residue[r].Atoms)
                  /\ \A k \in DOMAIN orig.Residue[r].Atoms :
                        atoms[copy.Residue[r].Atoms[k]] = atoms[orig.Residue[r].Atoms[k]]


-----------------------------------------------------------------------------
(* The derivative calls of the angle force *)

\* the force on the third atom when the derivative routine is called with
\* (atom3, atom2, atom1)
SwappedForceOnThird(k, theta, theta_0, atom1, atom2, atom3) ==
    LET s == Mul(Mul(k, Sub(theta, theta_0)), Mul(R(-1), Div(One, Sin(theta))))
    IN  TriTuple(Mul(s, DerivateAnglePositionX(atom3, atom2, atom1, theta)),
                 Mul(s, DerivateAnglePositionY(atom3, atom2, atom1, theta)),
                 Mul(s, DerivateAnglePositionZ(atom3, atom2, atom1, theta)))

\* C23: the force CalculateAngleForce returns for atom3 is built from the
\* derivative routine called with (atom3, atom2, atom1), the roles of atom1 and
\* atom3 swapped; no call passes one atom twice, so for atoms at distinct
\* positions no component comes from a division by the distance of an atom to
\* itself and the force on atom3 is a finite vector.
C23_Claimed_SwappedDerivativeCall ==
    Returned("CalculateAngleForce") =>
        /\ VecFinite(fret[3])
        /\ fret[3] = SwappedForceOnThird(fcall.k, fcall.theta, fcall.theta_0,
                                         fcall.atom1, fcall.atom2, fcall.atom3)


-----------------------------------------------------------------------------
(* Cross and the arc-cosine argument of CalculateAngle *)

ElementwiseProduct(a, b) == TriTuple(Mul(a.x, b.x), Mul(a.y, b.y), Mul(a.z, b.z))

\* the 3-D cross product a x b
CrossProduct3D(a, b) ==
    TriTuple(Sub(Mul(a.y, b.z), Mul(a.z, b.y)),
             Sub(Mul(a.z, b.x), Mul(a.x, b.z)),
             Sub(Mul(a.x, b.y), Mul(a.y, b.x)))

\* C26: Cross(v1, v2) is the element-wise product, the same in either argument
\* order; whenever that product is not perpendicular to both arguments it
\* differs from the 3-D cross product BuildNormalVector computes.
\* CalculateProperDihedralsForce takes v_t and v_u as element-wise products
\* (of the vectors 1->2 and 3->2, and of 4->3 and 3->2), while the three plane
\* normals of CalculateDihedralAngle are 3-D cross products.
C26_CrossIsElementwise ==
    /\ Returned("Cross") =>
          /\ fret = ElementwiseProduct(fcall.v1, fcall.v2)
          /\ fret = Cross(fcall.v2, fcall.v1)
          /\ (dot(fret, fcall.v1) # Zero \/ dot(fret, fcall.v2) # Zero) =>
                fret # BuildNormalVector(fcall.v1, fcall.v2)
    /\ Returned("CalculateProperDihedralsForce") =>
          LET vector12 == CalculateVector(fcall.atom1, fcall.atom2)
              vector32 == CalculateVector(fcall.atom3, fcall.atom2)
              vector43 == CalculateVector(fcall.atom4, fcall.atom3)
              aux == DihedralAuxVectors(fcall.atom1, fcall.atom2, fcall.atom3, fcall.atom4)
          IN  aux = <<ElementwiseProduct(vector12, vector32),
                      ElementwiseProduct(vector43, vector32)>>
    /\ Returned("CalculateDihedralAngle") =>
          LET vector1 == CalculateVector(fcall.atom2, fcall.atom1)
              vector2 == CalculateVector(fcall.atom3, fcall.atom2)
              vector3 == CalculateVector(fcall.atom4, fcall.atom3)
              plane == DihedralPlaneNormals(fcall.atom1, fcall.atom2, fcall.atom3,
                                            fcall.atom4)
          IN  /\ plane[1] = CrossProduct3D(vector1, vector2)
              /\ plane[2] = CrossProduct3D(vector2, vector3)
              /\ plane[3] = CrossProduct3D(plane[1], plane[2])
              /\ dot(plane[1], vector1) = Zero /\ dot(plane[1], vector2) = Zero

\* a Cross call on two non-zero vectors whose result differs both from their
\* 3-D cross product and from its negation
C26_Witness ==
    /\ Returned("Cross")
    /\ fcall.v1 # ZeroVec /\ fcall.v2 # ZeroVec /\ fcall.v1 # fcall.v2
    /\ fret # ZeroVec
    /\ fret # BuildNormalVector(fcall.v1, fcall.v2)
    /\ fret # BuildNormalVector(fcall.v2, fcall.v1)
    /\ BuildNormalVector(fcall.v1, fcall.v2) # BuildNormalVector(fcall.v2, fcall.v1)

\* C27: for three atoms at pairwise distinct positions the value CalculateAngle
\* hands to the arc-cosine, dot(atom1-atom2, atom1-atom3) divided by
\* distance(atom1, atom2) * distance(atom2, atom3), lies in [-1, 1] and the
\* returned angle is a number.
C27_Claimed_AcosArgumentInRange ==
    Returned("CalculateAngle") =>
        LET vector1 == TriTuple(Sub(fcall.atom1.position.x, fcall.atom2.position.x),
                                Sub(fcall.atom1.position.y, fcall.atom2.position.y),
                                Sub(fcall.atom1.position.z, fcall.atom2.position.z))
            vector2 == TriTuple(Sub(fcall.atom1.position.x, fcall.atom3.position.x),
                                Sub(fcall.atom1.position.y, fcall.atom3.position.y),
                                Sub(fcall.atom1.position.z, fcall.atom3.position.z))
            ratio == Div(dot(vector1, vector2),
                         Mul(Distance(fcall.atom1.position, fcall.atom2.position),
                             Distance(fcall.atom2.position, fcall.atom3.position)))
        IN  /\ Le(R(-1), ratio) /\ Le(ratio, One)
            /\ IsFinite(fret.angle)


-----------------------------------------------------------------------------
(* Frame of SteepestDescent and of the loop body; the fixed energy *)

\* a call of SteepestDescent from the caller
SteepestDescentDone == fcall = NoCall /\ fcall'.op = "SteepestDescent"

C25_TrialOnDeepCopy ==
    [][IterationDone =>
        LET cur == fcall.currentProtein
            trial == fcall'.tempProtein
            curAtoms == AtomsOf(proteins[cur])
            trialAtoms == AtomsOf(proteins'[trial])
        IN  /\ trial # cur
            /\ proteins'[cur] = proteins[cur]
            /\ \A a \in Range(curAtoms) : a \in DOMAIN atoms' /\ atoms'[a] = atoms[a]
            /\ Range(trialAtoms) \cap Range(curAtoms) = {}
            /\ \A r \in DOMAIN proteins[cur].Residue : \A t \in DOMAIN proteins'[trial].Residue :
                  Range(proteins[cur].Residue[r].Atoms)
                      \cap Range(proteins'[trial].Residue[t].Atoms) = {}
            /\ Len(trialAtoms) = Len(curAtoms)
            /\ \A k \in DOMAIN curAtoms :
                  atoms'[trialAtoms[k]].position =
                      VecAdd(atoms[curAtoms[k]].position,
                             Scale(Div(HValue(fcall.h), magnitude(CalculateNetForce(k))),
                                   CalculateNetForce(k)))
            /\ ~Lt(fcall'.updatedEnergy, fcall'.initialEnergy) =>
                  /\ fcall'.currentProtein = cur
                  /\ \A k \in DOMAIN curAtoms :
                        StructureIn(atoms', proteins', cur)[k].position
                            = StructureIn(atoms, proteins, cur)[k].position
      ]_vars

\* after the first iteration on p1 the trial is another protein whose atoms are
\* other objects at other positions, and p1 is still the current structure
C25_Witness ==
    /\ fcall.op = "PerformEnergyMinimization" /\ fcall.p = 1 /\ fcall.i = 1
    /\ fcall.currentProtein = 1 /\ fcall.tempProtein # 1
    /\ Len(AtomsOf(proteins[1])) = 3
    /\ Range(AtomsOf(proteins[fcall.tempProtein])) \cap Range(AtomsOf(proteins[1])) = {}
    /\ \A k \in 1..3 : StructureIn(atoms, proteins, fcall.tempProtein)[k].position.x # Zero
    /\ \A k \in 1..3 : StructureIn(atoms, proteins, 1)[k].position.x = Zero

\* C28: as CalculateTotalEnergy returns the same value for every structure, no
\* trial's energy is strictly lower and none is accepted: in every iteration the
\* current structure stays the protein the call was given, h does not increase
\* and is never above the initial 0.01; no step of the call changes any atom of
\* that protein (position, index, charge and the other fields), and the call
\* returns that protein.
C28_NoTrialAccepted ==
    [][fcall'.op = "PerformEnergyMinimization" =>
        /\ fcall'.currentProtein = fcall'.p
        /\ ~HLt(InitialStep, fcall'.h)
        /\ StructureIn(atoms', proteins', fcall'.p) = StructureIn(atoms, proteins, fcall'.p)
        /\ fret' # NoCall => fret'.protein = fcall'.p
        /\ IterationDone =>
              /\ ~Lt(fcall'.updatedEnergy, fcall'.initialEnergy)
              /\ fcall'.tempProtein # fcall'.currentProtein
              /\ ~HLt(fcall.h, fcall'.h)
      ]_vars

\* the call on p1 has returned p1 after 100 iterations, h has shrunk to 0, and
\* the last trial is another protein
C28_Witness ==
    /\ Returned("PerformEnergyMinimization") /\ fcall.p = 1 /\ fcall.i = 100
    /\ fret.protein = 1
    /\ fcall.h = HZero
    /\ fcall.tempProtein # 1
    /\ \E a \in Range(AtomsOf(proteins[1])) : atoms[a].index # 0 /\ atoms[a].charge # Zero

\* the neighbor relation BuildVerlet finds in a protein, by places in the atom order
NeighborPlaces(protein) ==
    LET all == AtomsOf(protein)
        vl == BuildVerlet(NewVerletList, protein)
    IN  {<<i, j>> \in (DOMAIN all) \X (DOMAIN all) : all[j] \in Range(vl.Neighbors[all[i]])}

\* C30 as claimed: the snapshot CopyProtein(p) has, place by place, the same
\* neighbor relation under BuildVerlet as p, and
\* CalculateTotalUnbondedEnergyForce returns the same total energy for both.
C30_Claimed_SnapshotNonBondedEquivalent ==
    Returned("CopyProtein") =>
        /\ NeighborPlaces(proteins[fret.protein]) = NeighborPlaces(proteins[fcall.p])
        /\ CalculateTotalUnbondedEnergyForce(proteins[fret.protein],
                                             NonbondedDatabase).totalEnergy
             = CalculateTotalUnbondedEnergyForce(proteins[fcall.p],
                                                 NonbondedDatabase).totalEnergy


-----------------------------------------------------------------------------
(* Action and reaction in the force map *)

RECURSIVE SumEntries(_, _)
\* the sum of the entries of a force map under the given keys
SumEntries(map, keys) ==
    IF keys = {} THEN ZeroVec
    ELSE LET k == CHOOSE k \in keys : \A m \in keys : k <= m
         IN  VecAdd(map[k], SumEntries(map, keys \ {k}))

\* the lookup finds the same coefficients for the two atoms in either order
SymmetricLookup(S) ==
    \A a \in S : \A b \in S :
        SearchParameter(2, NonbondedDatabase, atoms[a], atoms[b])
            = SearchParameter(2, NonbondedDatabase, atoms[b], atoms[a])

\* C29: for a protein whose atoms have pairwise distinct indices, with a lookup
\* that finds the same coefficients for a pair in either order, b is a neighbor
\* of a exactly when a is one of b, the force of a with its neighbor b is the
\* negation of the force of b with a, every map entry is the sum of the atom's
\* pair forces, and the entries of the force map add up to the zero vector.
C29_ForcesCancel ==
    (/\ Returned("CalculateTotalUnbondedEnergyForce")
     /\ DistinctIndices(PassedAtoms)
     /\ SymmetricLookup(PassedAtoms)) =>
        /\ \A a \in PassedAtoms : \A b \in PassedAtoms :
              /\ b \in Range(PassNeighbors[a]) <=> a \in Range(PassNeighbors[b])
              /\ b \in Range(PassNeighbors[a]) =>
                    PairForce(a, b) = TriTuple(Neg(PairForce(b, a).x), Neg(PairForce(b, a).y),
                                               Neg(PairForce(b, a).z))
        /\ \A a \in PassedAtoms :
              fret.forceMap[atoms[a].index] = SumPairForces(a, PassNeighbors[a])
        /\ SumEntries(fret.forceMap, DOMAIN fret.forceMap) = ZeroVec

\* three atoms with distinct indices, each with a force entry that is not zero;
\* one pair of neighbors carries opposite charges and one pair a Lennard-Jones term
C29_Witness ==
    /\ Returned("CalculateTotalUnbondedEnergyForce") /\ fcall.p = 1
    /\ DistinctIndices(PassedAtoms)
    /\ Cardinality(DOMAIN fret.forceMap) = 3
    /\ \A k \in DOMAIN fret.forceMap : fret.forceMap[k] # ZeroVec
    /\ \E a \in PassedAtoms : \E b \in Range(PassNeighbors[a]) :
          Lt(Mul(atoms[a].charge, atoms[b].charge), Zero)
    /\ \E a \in PassedAtoms : \E b \in Range(PassNeighbors[a]) : HasLJ(a, b)
    /\ SumEntries(fret.forceMap, DOMAIN fret.forceMap) = ZeroVec


-----------------------------------------------------------------------------
(* Malformed input lines; default charges and masses *)

\* a line of a parameter table, neither empty nor a comment, that has fewer
\* fields than the header names or whose function type or one of whose
\* parameters is no number; the header has "func" at place funcPosition of
\* length fields, the leading ";" included
MalformedParameterLine(fields, funcPosition, length) ==
    /\ fields # <<>> /\ ~IsCommentLine(fields)
    /\ \/ Len(fields) < length - 1
       \/ funcPosition <= Len(fields) /\ Atoi(fields[funcPosition]).err
       \/ \E k \in (funcPosition + 1)..(length - 1) :
             k <= Len(fields) /\ ParseFloat(fields[k]).err

\* an ATOM line with fewer than the nine fields up to the coordinates, or whose
\* index or one of whose coordinates is no number
MalformedAtomLine(fields) ==
    /\ IsAtomLine(fields)
    /\ \/ Len(fields) < 9
       \/ Atoi(fields[2]).err
       \/ \E k \in 7..9 : ParseFloat(fields[k]).err

\* C21 as claimed: ReadParameterFile on a table that begins with a header and
\* holds a line with a numeric field that does not parse, or with too few
\* fields, returns an error; so does readProteinFromFile on a file that holds
\* such an ATOM line.
C21_Claimed_MalformedLineIsAnError ==
    /\ (/\ Returned("ReadParameterFile")
        /\ fcall.lines # <<>>
        /\ FindPosition(Head(fcall.lines)).funcPosition >= 0
        /\ \E k \in DOMAIN fcall.lines :
              MalformedParameterLine(fcall.lines[k], FindPosition(Head(fcall.lines)).funcPosition,
                                     FindPosition(Head(fcall.lines)).length))
          => fret.kind = "err"
    /\ (/\ Returned("readProteinFromFile")
        /\ \E k \in DOMAIN fcall.lines : MalformedAtomLine(fcall.lines[k]))
          => fret.kind = "err"

\* the charge the table holds for an atom label in a residue, 0.0 if none
TableCharge(chargeData, residueName, label) ==
    IF residueName \in DOMAIN chargeData /\ label \in DOMAIN chargeData[residueName]
    THEN chargeData[residueName][label]
    ELSE Zero

\* every atom of the protein is the old atom with the charge of the table
ChargesAssigned ==
    LET p == proteins[fcall'.p]
    IN  /\ fret'.kind = "ok"
        /\ proteins' = proteins
        /\ DOMAIN atoms' = DOMAIN atoms
        /\ \A a \in DOMAIN atoms \ Range(AtomsOf(p)) : atoms'[a] = atoms[a]
        /\ \A r \in DOMAIN p.Residue : \A k \in DOMAIN p.Residue[r].Atoms :
              LET a == p.Residue[r].Atoms[k]
              IN  atoms'[a] = [atoms[a] EXCEPT !.charge =
                                  TableCharge(fcall'.chargeData, p.Residue[r].Name,
                                              atoms[a].element)]

\* the atoms of the loaded protein are, in file order, the atoms as read from
\* the ATOM lines (index, position, label), with the mass Mass gives their label
LoadedWithMasses(Mass(_)) ==
    LET atomLines == SelectSeq(fcall'.lines, IsAtomLine)
        ptrs == AtomsOf(proteins'[fret'.protein])
    IN  /\ Len(ptrs) = Len(atomLines)
        /\ \A k \in DOMAIN ptrs :
              LET read == parsePDBLine(atomLines[k]).atom
              IN  atoms'[ptrs[k]] = [read EXCEPT !.mass = Mass(read.element)]

\* the mass-table entry of the label, 0.0 when the label has none
MassOfLabel(element) ==
    IF element \in DOMAIN massTable THEN massTable[element] ELSE Zero

\* the mass-table entry of the label's first character, 0.0 when that has none
MassOfFirstCharacter(element) ==
    IF FirstCharacter(element) \in DOMAIN massTable
    THEN massTable[FirstCharacter(element)] ELSE Zero

\* C22 as claimed: AssignChargesToProtein gives every atom the table's charge
\* for (residue name, atom label), 0.0 without an entry, whatever the charge
\* was; UpdateMasses, run at the end of a successful load, gives an atom whose
\* element label has no mass-table entry the mass 0.0 (and the others their
\* entry); neither fails, neither changes a position or an index.
C22_Claimed_DefaultsByLabel ==
    [][/\ fcall'.op = "AssignChargesToProtein" => ChargesAssigned
       /\ (fcall'.op = "readProteinFromFile" /\ fret'.kind = "ok") =>
              LoadedWithMasses(MassOfLabel)
      ]_vars

\* C22 amended: the same, with the mass looked up under the first character of
\* the element label: the atom gets that entry when the table has it and 0.0
\* otherwise.
C22_DefaultsByFirstCharacter ==
    [][/\ fcall'.op = "AssignChargesToProtein" => ChargesAssigned
       /\ (fcall'.op = "readProteinFromFile" /\ fret'.kind = "ok") =>
              LoadedWithMasses(MassOfFirstCharacter)
      ]_vars

\* charges were assigned to a loaded protein: the "CA" of ALA has the table's
\* charge and, by its first character, the mass of carbon; the "X" of GLY has no
\* charge entry and no mass entry and holds 0.0 for both, at the index and the
\* position read from its line
C22_Witness ==
    /\ Returned("AssignChargesToProtein")
    /\ "GLY" \notin DOMAIN fcall.chargeData
    /\ \E a \in Range(AtomsOf(proteins[fcall.p])) :
          /\ atoms[a].element = "CA" /\ atoms[a].charge = Norm(1, 10)
          /\ atoms[a].mass = Norm(120107, 10000)
    /\ \E a \in Range(AtomsOf(proteins[fcall.p])) :
          /\ atoms[a].element = "X" /\ atoms[a].charge = Zero /\ atoms[a].mass = Zero
          /\ atoms[a].index = 5 /\ atoms[a].position = Vec(0, 2, 0)

====
